---- MODULE Spec2Model ----
(***************************************************************************)
(* Model of rocforge-clamp: the ClampAnchor lifecycle state machine        *)
(* (src/src/clamp.cpp) and the EntropyTelemetry recorder                   *)
(* (src/src/telemetry/entropy_telemetry.cpp).                              *)
(*                                                                         *)
(* The specifications share the variables:                                 *)
(*   SpecAnchor        - lock/release/move/destroy over the anchor objects *)
(*   SpecAnchorNonZero - SpecAnchor with a generator that never returns 0  *)
(*   SpecRecorder      - threads calling recordAcquire/recordRelease on a  *)
(*                       shared recorder, statement by statement around    *)
(*                       the mutex                                         *)
(*   SpecTelemetry     - one client calling every recorder operation       *)
(*   SpecFlow          - anchors with a recorder attached                  *)
(*   SpecAggregate     - TemporalAggregator::aggregate over a directory    *)
(*   SpecWelford       - RunningStats fed with scores in every order       *)
(*   SpecPercentile    - computePercentile on drawn arguments              *)
(*   SpecAccumulate    - aggregate and writeSummary run twice              *)
(*   SpecSummary       - writeSummary on drawn Summary values              *)
(*   SpecLoad          - loadSummary on drawn summary files                *)
(*   SpecSessions      - aggregate and loadSessions over a directory       *)
(*   SpecScoring       - TemporalScoring on drawn batches and groups       *)
(*   SpecSeed          - generateSeed called by two threads                *)
(*   SpecSnapshot      - a client calling recordAcquire, recordRelease,    *)
(*                       mergeRecords and toJson                           *)
(*   SpecMerge         - threads calling merge, setBackendMetadata and     *)
(*                       recordAcquire on shared recorders                 *)
(*   SpecMergeFair     - SpecMerge with every thread scheduled fairly      *)
(*   SpecOrder         - aggregate over labelled listings in every order   *)
(*   SpecRoundTrip     - aggregate, writeSummary and loadSummary in turn   *)
(***************************************************************************)
EXTENDS Integers, Sequences, FiniteSets, TLC

\* ------------------------------------------------------------------------
\* Bounds
\* ------------------------------------------------------------------------
\* width of the modelled seed word (std::uint64_t in the source)
SeedBits == 2
\* number of successful generateSeed calls explored
MaxAcq == 3
\* number of recorder calls explored
MaxCalls == 3
\* last value of the modelled system clock
MaxClock == 2
\* number of entries of a telemetry directory
MaxFiles == 3
\* number of finite scores folded into a RunningStats
MaxScores == 4
\* length of the lists computePercentile is called with
MaxLen == 5
\* groups given to evaluateAggregated
MaxGroups == 2

Anchors == {"a", "b"}
Contexts == {"", "x"}
Threads == {"t1", "t2"}
Recorders == {"r1", "r2"}
\* the recorder the threads of SpecRecorder share
SharedRecorders == {"r1"}

SeedModulus == 2 ^ SeedBits
SeedRange == 0 .. (SeedModulus - 1)

VARIABLES
    anchor,      \* anchor object -> state_ (AnchorStatus, plus the history field acq)
    alive,       \* anchor object -> constructed and not yet destroyed
    legal,       \* history: anchor object -> since its default or context
                 \* construction only lock/release in legal alternation ran on it
    nextAcq,     \* history: identity given to the next generateSeed result
    trace,       \* the std::cout lines emitted by the last anchor operation
    ndebug,      \* build flavour: TRUE when assert() is compiled out
    aborted,     \* assert(false) fired in a build with assertions
    last,        \* history: the last operation, its arguments and pre-state
    records,     \* recorder -> records_
    backend,     \* recorder -> backend_
    deviceName,  \* recorder -> deviceName_
    mutex,       \* recorder -> thread holding mutex_, or NoThread
    activeTelemetry, \* the static activeTelemetry_ pointer
    clock,       \* std::chrono::system_clock::now()
    pc,          \* thread -> position inside its recorder call
    frame,       \* thread -> locals of its recorder call
    nextCall,    \* history: identity of the next recorder call
    issued,      \* history: recorder -> handles returned, in mutex order
    telemetry,   \* anchor object -> telemetry_ (attached recorder or NullRecorder)
    activeTelemetryRecord, \* anchor object -> activeTelemetryRecord_ (handle or NoRecord)
    served,      \* history: recorder -> successful locks and releases of the
                 \* anchors it was attached to
    hasNlohmann, \* build flavour: CLAMP_HAS_NLOHMANN_JSON
    telemetryDir, \* the path aggregate is called on: exists, directory entries
    stats,       \* the RunningStats of aggregate
    folded,      \* history: the finite scores folded into stats, in order
    aggregateFrame, \* the other locals of aggregate
    summary,     \* the Summary aggregate returns
    percentileCall, \* arguments and result of a computePercentile call
    summaryFile, \* the summary file: the objects in its text (<<>>: no file)
    runs,        \* history: the runs of accumulate, the first one's outcome
    loaded,      \* the Summary loadSummary returns
    sessions,    \* the list loadSessions returns
    scoring,     \* arguments and result of a TemporalScoring call
    seedCall     \* history: the generateSeed calls of the two threads

anchorVars == <<anchor, alive, legal, nextAcq, trace, ndebug, aborted>>
recorderVars == <<records, backend, deviceName, mutex, activeTelemetry,
                  clock, pc, frame, nextCall, issued>>
flowVars == <<telemetry, activeTelemetryRecord, served>>
aggregateVars == <<hasNlohmann, telemetryDir, stats, folded, aggregateFrame, summary>>
percentileVars == <<percentileCall>>
toolVars == <<summaryFile, runs, loaded, sessions, scoring, seedCall>>
extVars == <<flowVars, aggregateVars, percentileVars, toolVars>>
vars == <<anchor, alive, legal, nextAcq, trace, ndebug, aborted, last,
          records, backend, deviceName, mutex, activeTelemetry,
          clock, pc, frame, nextCall, issued,
          telemetry, activeTelemetryRecord, served,
          hasNlohmann, telemetryDir, stats, folded, aggregateFrame, summary,
          percentileCall,
          summaryFile, runs, loaded, sessions, scoring, seedCall>>

\* ------------------------------------------------------------------------
\* EntropyTracker
\* ------------------------------------------------------------------------
RECURSIVE Xor(_, _, _)
Xor(x, y, n) ==
    IF n = 0 THEN 0
    ELSE (((x % 2) + (y % 2)) % 2) + (2 * Xor(x \div 2, y \div 2, n - 1))

\* generateSeed combining the two hashes without the shift
generateSeed_noShift(clockHash, threadHash) ==
    Xor(clockHash, threadHash, SeedBits)

\* clockHash ^ (threadHash << 1) in seed-word arithmetic
generateSeed(clockHash, threadHash) ==
    Xor(clockHash, (threadHash * 2) % SeedModulus, SeedBits)

\* the values generateSeed returns over all clock ticks and thread identities
\* (std::hash is implementation-defined: any pair of hash words)
GeneratedSeeds ==
    {generateSeed(clockHash, threadHash) : clockHash \in SeedRange, threadHash \in SeedRange}

\* ------------------------------------------------------------------------
\* ClampAnchor
\* ------------------------------------------------------------------------
\* AnchorStatus{}: the default member initialisers.  acq is a history field
\* that travels with entropySeed: the generateSeed call that produced it.
FreshStatus == [state |-> "Unlocked", context |-> "", entropySeed |-> 0, acq |-> 0]

\* An operation on one anchor is threaded through a record
\*   st   - state_
\*   log  - lines written to std::cout, as [from, to]
\*   fail - an assert(false) was reached
Run(st) == [st |-> st, log |-> <<>>, fail |-> FALSE]

setState(r, newState) ==
    IF newState = r.st.state
    THEN r
    ELSE [r EXCEPT !.st.state = newState,
                   !.log = Append(r.log, [from |-> r.st.state, to |-> newState])]

release_internal_keepsSeed(r) ==
    IF r.st.state # "Locked"
    THEN r
    ELSE setState(setState(r, "Released"), "Unlocked")

release_internal_raises(r) ==
    IF r.st.state # "Locked"
    THEN setState(r, "Error")
    ELSE LET r1 == setState(r, "Released")
             r2 == [r1 EXCEPT !.st.context = "", !.st.entropySeed = 0, !.st.acq = 0]
         IN  setState(r2, "Unlocked")

release_internal_skipsReleased(r) ==
    IF r.st.state # "Locked"
    THEN r
    ELSE setState([r EXCEPT !.st.context = "", !.st.entropySeed = 0, !.st.acq = 0],
                  "Unlocked")

release_internal(r) ==
    IF r.st.state # "Locked"
    THEN r
    ELSE LET r1 == setState(r, "Released")
             r2 == [r1 EXCEPT !.st.context = "", !.st.entropySeed = 0, !.st.acq = 0]
         IN  setState(r2, "Unlocked")

lock_relocks(r, ctx, seed, id) ==
    IF r.st.state = "Error"
    THEN [r EXCEPT !.fail = TRUE]
    ELSE setState([r EXCEPT !.st.context = ctx,
                            !.st.entropySeed = seed,
                            !.st.acq = id], "Locked")

lock_ignoresError(r, ctx, seed, id) ==
    IF r.st.state = "Locked"
    THEN [setState(r, "Error") EXCEPT !.fail = TRUE]
    ELSE setState([r EXCEPT !.st.context = ctx,
                            !.st.entropySeed = seed,
                            !.st.acq = id], "Locked")

lock(r, ctx, seed, id) ==
    IF r.st.state = "Locked"
    THEN [setState(r, "Error") EXCEPT !.fail = TRUE]
    ELSE IF r.st.state = "Error"
    THEN [r EXCEPT !.fail = TRUE]
    ELSE setState([r EXCEPT !.st.context = ctx,
                            !.st.entropySeed = seed,
                            !.st.acq = id], "Locked")

release_silent(r) ==
    IF r.st.state # "Locked"
    THEN r
    ELSE release_internal(r)

release(r) ==
    IF r.st.state # "Locked"
    THEN [setState(r, "Error") EXCEPT !.fail = TRUE]
    ELSE release_internal(r)

\* state_(std::move(other.state_)) / state_ = std::move(other.state_)
moveTarget_keepsContext(own, otherSt) == [otherSt EXCEPT !.context = own.context]

moveTarget(own, otherSt) == otherSt

\* other.state_ = {};
moveSource_keeps(st) == st

moveSource(st) == FreshStatus

\* what `lock` consumes from the seed generator in this call
WillGenerate(a) == anchor[a].state \notin {"Locked", "Error"}

\* history record of an anchor operation: its arguments, the value the seed
\* generator returned to it (0 when it was not called), the status of the
\* two objects before it, and the status of self after release_internal
LastAnchorOp(op, self, other, ctx, seed, pre, mid) ==
    [op |-> op, self |-> self, other |-> other, ctx |-> ctx, seed |-> seed,
     pre |-> pre, preOther |-> anchor[other], mid |-> mid]

\* ClampAnchor::ClampAnchor()
Construct(a) ==
    /\ ~aborted
    /\ ~alive[a]
    /\ alive' = [alive EXCEPT ![a] = TRUE]
    /\ anchor' = [anchor EXCEPT ![a] = FreshStatus]
    /\ trace' = <<>>
    /\ legal' = [legal EXCEPT ![a] = TRUE]
    /\ last' = [LastAnchorOp("construct", a, a, "", 0, FreshStatus, FreshStatus)
                    EXCEPT !.preOther = FreshStatus]
    /\ UNCHANGED <<nextAcq, ndebug, aborted>>
    /\ UNCHANGED recorderVars
    /\ UNCHANGED extVars

\* ClampAnchor::ClampAnchor(const std::string& ctx)
ConstructCtx(a, ctx, seed) ==
    /\ ~aborted
    /\ ~alive[a]
    /\ nextAcq <= MaxAcq
    /\ LET r == lock(Run(FreshStatus), ctx, seed, nextAcq)
       IN  /\ anchor' = [anchor EXCEPT ![a] = r.st]
           /\ trace' = r.log
           /\ aborted' = (r.fail /\ ~ndebug)
    /\ alive' = [alive EXCEPT ![a] = TRUE]
    /\ nextAcq' = nextAcq + 1
    /\ legal' = [legal EXCEPT ![a] = TRUE]
    /\ last' = [LastAnchorOp("constructCtx", a, a, ctx, seed, FreshStatus, FreshStatus)
                    EXCEPT !.preOther = FreshStatus]
    /\ UNCHANGED ndebug
    /\ UNCHANGED recorderVars
    /\ UNCHANGED extVars

\* ClampAnchor::~ClampAnchor()
Destroy(a) ==
    /\ ~aborted
    /\ alive[a]
    /\ LET r == release_internal(Run(anchor[a]))
       IN  /\ anchor' = [anchor EXCEPT ![a] = r.st]
           /\ trace' = r.log
           /\ last' = LastAnchorOp("destroy", a, a, "", 0, anchor[a], r.st)
    /\ alive' = [alive EXCEPT ![a] = FALSE]
    /\ UNCHANGED <<legal, nextAcq, ndebug, aborted>>
    /\ UNCHANGED recorderVars
    /\ UNCHANGED extVars

\* ClampAnchor::ClampAnchor(ClampAnchor&& other): self is constructed from other
MoveConstruct(self, other) ==
    /\ ~aborted
    /\ ~alive[self]
    /\ alive[other]
    /\ self # other
    /\ anchor' = [anchor EXCEPT ![self] = moveTarget(FreshStatus, anchor[other]),
                                ![other] = moveSource(anchor[other])]
    /\ alive' = [alive EXCEPT ![self] = TRUE]
    /\ legal' = [legal EXCEPT ![self] = FALSE, ![other] = FALSE]
    /\ trace' = <<>>
    /\ last' = LastAnchorOp("moveConstruct", self, other, "", 0, FreshStatus, FreshStatus)
    /\ UNCHANGED <<nextAcq, ndebug, aborted>>
    /\ UNCHANGED recorderVars
    /\ UNCHANGED extVars

\* ClampAnchor::operator=(ClampAnchor&& other)
MoveAssign(self, other) ==
    /\ ~aborted
    /\ alive[self]
    /\ alive[other]
    /\ IF self # other
       THEN LET r == release_internal(Run(anchor[self]))
            IN  /\ anchor' = [anchor EXCEPT ![self] = moveTarget(r.st, anchor[other]),
                                            ![other] = moveSource(anchor[other])]
                /\ trace' = r.log
                /\ last' = LastAnchorOp("moveAssign", self, other, "", 0, anchor[self], r.st)
       ELSE /\ anchor' = anchor
            /\ trace' = <<>>
            /\ last' = LastAnchorOp("moveAssign", self, other, "", 0, anchor[self],
                                    anchor[self])
    /\ legal' = [legal EXCEPT ![self] = FALSE, ![other] = FALSE]
    /\ UNCHANGED <<alive, nextAcq, ndebug, aborted>>
    /\ UNCHANGED recorderVars
    /\ UNCHANGED extVars

\* ClampAnchor::lock
Lock(a, ctx, seed) ==
    /\ ~aborted
    /\ alive[a]
    /\ WillGenerate(a) => nextAcq <= MaxAcq
    /\ LET r == lock(Run(anchor[a]), ctx, seed, nextAcq)
       IN  /\ anchor' = [anchor EXCEPT ![a] = r.st]
           /\ trace' = r.log
           /\ aborted' = (r.fail /\ ~ndebug)
    /\ nextAcq' = IF WillGenerate(a) THEN nextAcq + 1 ELSE nextAcq
    /\ legal' = [legal EXCEPT ![a] = @ /\ anchor[a].state = "Unlocked"]
    /\ last' = LastAnchorOp("lock", a, a, ctx,
                            IF WillGenerate(a) THEN seed ELSE 0,
                            anchor[a], anchor[a])
    /\ UNCHANGED <<alive, ndebug>>
    /\ UNCHANGED recorderVars
    /\ UNCHANGED extVars

\* ClampAnchor::release
Release(a) ==
    /\ ~aborted
    /\ alive[a]
    /\ LET r == release(Run(anchor[a]))
       IN  /\ anchor' = [anchor EXCEPT ![a] = r.st]
           /\ trace' = r.log
           /\ aborted' = (r.fail /\ ~ndebug)
    /\ legal' = [legal EXCEPT ![a] = @ /\ anchor[a].state = "Locked"]
    /\ last' = LastAnchorOp("release", a, a, "", 0, anchor[a], anchor[a])
    /\ UNCHANGED <<alive, nextAcq, ndebug>>
    /\ UNCHANGED recorderVars
    /\ UNCHANGED extVars

\* ------------------------------------------------------------------------
\* EntropyTelemetry
\* ------------------------------------------------------------------------
NoThread == "none"
NullRecorder == "nullptr"
IdleFrame == [op |-> "none"]

\* arguments the callers pass: (context, seed) and (context, seed, score);
\* scores are in thousandths
AcquireInputs == {<<"x", 1>>, <<"", 0>>}
ReleaseInputs == {<<"x", 1, 1000>>}
Handles == 0 .. MaxCalls

\* AnchorTelemetryRecord as recordAcquire fills it before taking the mutex.
\* call is a history field: the recordAcquire call that created the record.
NewRecord(context, seed, t, now, call) ==
    [context |-> context, seed |-> seed, threadId |-> t, acquiredAt |-> now,
     hasReleasedAt |-> FALSE, releasedAt |-> 0, durationMs |-> 0,
     stabilityScore |-> 0, backend |-> "", deviceName |-> "", call |-> call]

DefaultIfEmpty(s, d) == IF s = "" THEN d ELSE s

\* return records_.size() - 1;  evaluated after the push_back
acquireHandle_offByOne(recs) == Len(recs)

acquireHandle(recs) == Len(recs) - 1

\* the body of recordRelease under the mutex
releaseBody_lastOnStale(recs, recordId, now, context, seed, score, be, dev) ==
    LET i == IF recordId >= Len(recs) THEN Len(recs) ELSE recordId + 1
    IN  IF i = 0 THEN recs
        ELSE [recs EXCEPT ![i] = [recs[i] EXCEPT !.hasReleasedAt = TRUE,
                                                 !.releasedAt = now,
                                                 !.durationMs = now - recs[i].acquiredAt,
                                                 !.stabilityScore = score]]

releaseBody_firstRecord(recs, recordId, now, context, seed, score, be, dev) ==
    IF recordId >= Len(recs)
    THEN recs
    ELSE [recs EXCEPT ![1] = [recs[1] EXCEPT !.hasReleasedAt = TRUE,
                                             !.releasedAt = now,
                                             !.durationMs = now - recs[1].acquiredAt,
                                             !.stabilityScore = score,
                                             !.backend = be,
                                             !.deviceName = dev]]

releaseBody_overwrites(recs, recordId, now, context, seed, score, be, dev) ==
    IF recordId >= Len(recs)
    THEN recs
    ELSE [recs EXCEPT ![recordId + 1] =
             [recs[recordId + 1] EXCEPT !.hasReleasedAt = TRUE,
                                        !.releasedAt = now,
                                        !.durationMs = now - recs[recordId + 1].acquiredAt,
                                        !.stabilityScore = score,
                                        !.backend = be,
                                        !.deviceName = dev,
                                        !.context = context,
                                        !.seed = seed]]

releaseBody(recs, recordId, now, context, seed, score, be, dev) ==
    IF recordId >= Len(recs)
    THEN recs
    ELSE LET old == recs[recordId + 1]
             new == [old EXCEPT !.hasReleasedAt = TRUE,
                                !.releasedAt = now,
                                !.durationMs = now - old.acquiredAt,
                                !.stabilityScore = score,
                                !.backend = be,
                                !.deviceName = dev,
                                !.context = IF old.context = "" THEN context ELSE old.context,
                                !.seed = IF old.seed = 0 THEN seed ELSE old.seed]
         IN  [recs EXCEPT ![recordId + 1] = new]

\* recordAcquire up to the lock_guard: build the record, setActiveInstance(this)
AcquireBegin(t, rc, in) ==
    /\ pc[t] = "idle"
    /\ nextCall <= MaxCalls
    /\ frame' = [frame EXCEPT ![t] =
                    [op |-> "recordAcquire", rc |-> rc, call |-> nextCall,
                     record |-> NewRecord(in[1], in[2], t, clock, nextCall)]]
    /\ nextCall' = nextCall + 1
    /\ activeTelemetry' = rc
    /\ pc' = [pc EXCEPT ![t] = "acquire_lock"]
    /\ UNCHANGED last
    /\ UNCHANGED <<records, backend, deviceName, mutex, clock, issued>>
    /\ UNCHANGED anchorVars
    /\ UNCHANGED extVars

\* std::lock_guard<std::mutex> lock(mutex_) in recordAcquire
AcquireLock(t) ==
    /\ pc[t] = "acquire_lock"
    /\ mutex[frame[t].rc] = NoThread
    /\ mutex' = [mutex EXCEPT ![frame[t].rc] = t]
    /\ pc' = [pc EXCEPT ![t] = "acquire_body"]
    /\ UNCHANGED last
    /\ UNCHANGED <<records, backend, deviceName, activeTelemetry, clock, frame,
                   nextCall, issued>>
    /\ UNCHANGED anchorVars
    /\ UNCHANGED extVars

\* the critical section of recordAcquire, up to the return that unlocks
AcquireBody(t) ==
    /\ pc[t] = "acquire_body"
    /\ LET rc == frame[t].rc
           be == DefaultIfEmpty(backend[rc], "CPU")
           dev == DefaultIfEmpty(deviceName[rc], "host")
           rec == [frame[t].record EXCEPT !.backend = be, !.deviceName = dev]
           recs == Append(records[rc], rec)
           handle == acquireHandle(recs)
       IN  /\ mutex[rc] = t
           /\ backend' = [backend EXCEPT ![rc] = be]
           /\ deviceName' = [deviceName EXCEPT ![rc] = dev]
           /\ records' = [records EXCEPT ![rc] = recs]
           /\ issued' = [issued EXCEPT ![rc] =
                            Append(@, [call |-> frame[t].call, handle |-> handle,
                                       thread |-> t])]
           /\ mutex' = [mutex EXCEPT ![rc] = NoThread]
           /\ last' = [op |-> "recordAcquire", rc |-> rc, call |-> frame[t].call,
                       handle |-> handle]
    /\ pc' = [pc EXCEPT ![t] = "idle"]
    /\ frame' = [frame EXCEPT ![t] = IdleFrame]
    /\ UNCHANGED <<activeTelemetry, clock, nextCall>>
    /\ UNCHANGED anchorVars
    /\ UNCHANGED extVars

\* recordRelease up to the lock_guard: const auto now = system_clock::now()
ReleaseBegin(t, rc, recordId, in) ==
    /\ pc[t] = "idle"
    /\ nextCall <= MaxCalls
    /\ nextCall' = nextCall + 1
    /\ frame' = [frame EXCEPT ![t] =
                    [op |-> "recordRelease", rc |-> rc, call |-> nextCall,
                     recordId |-> recordId,
                     context |-> in[1], seed |-> in[2], score |-> in[3],
                     now |-> clock]]
    /\ pc' = [pc EXCEPT ![t] = "release_lock"]
    /\ UNCHANGED last
    /\ UNCHANGED <<records, backend, deviceName, mutex, activeTelemetry, clock, issued>>
    /\ UNCHANGED anchorVars
    /\ UNCHANGED extVars

\* std::lock_guard<std::mutex> lock(mutex_) in recordRelease
ReleaseLock(t) ==
    /\ pc[t] = "release_lock"
    /\ mutex[frame[t].rc] = NoThread
    /\ mutex' = [mutex EXCEPT ![frame[t].rc] = t]
    /\ pc' = [pc EXCEPT ![t] = "release_body"]
    /\ UNCHANGED last
    /\ UNCHANGED <<records, backend, deviceName, activeTelemetry, clock, frame,
                   nextCall, issued>>
    /\ UNCHANGED anchorVars
    /\ UNCHANGED extVars

\* the critical section of recordRelease, up to the return that unlocks
ReleaseBody(t) ==
    /\ pc[t] = "release_body"
    /\ LET rc == frame[t].rc
           f == frame[t]
       IN  /\ mutex[rc] = t
           /\ records' = [records EXCEPT ![rc] =
                            releaseBody(records[rc], f.recordId, f.now, f.context,
                                        f.seed, f.score, backend[rc], deviceName[rc])]
           /\ mutex' = [mutex EXCEPT ![rc] = NoThread]
           /\ last' = [op |-> "recordRelease", rc |-> rc,
                       stale |-> (f.recordId >= Len(records[rc]))]
    /\ pc' = [pc EXCEPT ![t] = "idle"]
    /\ frame' = [frame EXCEPT ![t] = IdleFrame]
    /\ UNCHANGED <<backend, deviceName, activeTelemetry, clock, nextCall, issued>>
    /\ UNCHANGED anchorVars
    /\ UNCHANGED extVars

\* the system clock advances between statements
Tick ==
    /\ clock < MaxClock
    /\ clock' = clock + 1
    /\ UNCHANGED last
    /\ UNCHANGED <<records, backend, deviceName, mutex, activeTelemetry, pc, frame,
                   nextCall, issued>>
    /\ UNCHANGED anchorVars
    /\ UNCHANGED extVars

\* ------------------------------------------------------------------------
\* EntropyTelemetry: merge, mergeRecords, alignToReference, setBackendMetadata
\* ------------------------------------------------------------------------
NoRecord == -1

\* the thread of a client that calls the recorders one call after the other
ClientThreads == {"t1"}

\* foreign records handed to mergeRecords: a default-constructed
\* AnchorTelemetryRecord (time_point{} as acquiredAt, no releasedAt) and a
\* completed record filled in by the caller
DefaultRecord ==
    [context |-> "", seed |-> 0, threadId |-> "", acquiredAt |-> 0,
     hasReleasedAt |-> FALSE, releasedAt |-> 0, durationMs |-> 0,
     stabilityScore |-> 0, backend |-> "", deviceName |-> "", call |-> 0]

MadeRecord ==
    [context |-> "n", seed |-> 2, threadId |-> "n", acquiredAt |-> 1,
     hasReleasedAt |-> TRUE, releasedAt |-> 2, durationMs |-> 1,
     stabilityScore |-> 0, backend |-> "", deviceName |-> "", call |-> 0]

ExternalBatches == {<<>>, <<DefaultRecord, MadeRecord>>}

\* arguments of setBackendMetadata: (backend, deviceName)
BackendInputs == {<<"HIP", "gfx">>}

\* reference time points passed to alignToReference, the epoch included
Refs == 0 .. MaxClock

\* the members of one recorder
Recorder(rc) ==
    [backend |-> backend[rc], deviceName |-> deviceName[rc], records |-> records[rc]]

\* for (auto& record : records_) { record.backend = ...; record.deviceName = ...; }
tagRecords(recs, be, dev) ==
    [i \in 1 .. Len(recs) |-> [recs[i] EXCEPT !.backend = be, !.deviceName = dev]]

\* EntropyTelemetry::setBackendMetadata
setBackendMetadata(own, be, dev) ==
    LET b == IF be # "" THEN be ELSE own.backend
        d == IF dev # "" THEN dev ELSE own.deviceName
    IN  [backend |-> b, deviceName |-> d, records |-> tagRecords(own.records, b, d)]

\* EntropyTelemetry::mergeRecords
mergeRecords_prepends(recs, externalRecords) ==
    IF externalRecords = <<>> THEN recs ELSE externalRecords \o recs

mergeRecords(recs, externalRecords) ==
    IF externalRecords = <<>> THEN recs ELSE recs \o externalRecords

\* EntropyTelemetry::merge; self is  this == &other
merge_dedups(own, other, self) ==
    LET tagged == IF other.backend # "" \/ other.deviceName # ""
                  THEN setBackendMetadata(own, other.backend, other.deviceName)
                  ELSE own
        copy == IF self THEN tagged.records ELSE other.records
        fresh == SelectSeq(copy, LAMBDA r :
                     \A i \in 1 .. Len(tagged.records) : tagged.records[i] # r)
    IN  [tagged EXCEPT !.records = mergeRecords(tagged.records, fresh)]

merge(own, other, self) ==
    LET tagged == IF other.backend # "" \/ other.deviceName # ""
                  THEN setBackendMetadata(own, other.backend, other.deviceName)
                  ELSE own
        copy == IF self THEN tagged.records ELSE other.records
    IN  [tagged EXCEPT !.records = mergeRecords(tagged.records, copy)]

\* the records whose acquiredAt is not the zero time point
Acquired(recs) == {i \in 1 .. Len(recs) : recs[i].acquiredAt # 0}

\* minTime after the first loop of alignToReference
minTime(recs) ==
    CHOOSE m \in {recs[i].acquiredAt : i \in Acquired(recs)} :
        \A i \in Acquired(recs) : m <= recs[i].acquiredAt

\* EntropyTelemetry::alignToReference
alignToReference_addsReference(recs, reference) ==
    IF recs = <<>> \/ Acquired(recs) = {}
    THEN recs
    ELSE LET delta == reference
         IN  [i \in 1 .. Len(recs) |->
                 [recs[i] EXCEPT !.acquiredAt = IF @ # 0 THEN @ + delta ELSE @,
                                 !.releasedAt = IF recs[i].hasReleasedAt
                                                THEN @ + delta ELSE @]]

alignToReference_recomputes(recs, reference) ==
    IF recs = <<>> \/ Acquired(recs) = {}
    THEN recs
    ELSE LET delta == reference - recs[1].acquiredAt
         IN  [i \in 1 .. Len(recs) |->
                 [recs[i] EXCEPT !.acquiredAt = IF @ # 0 THEN @ + delta ELSE @,
                                 !.releasedAt = IF recs[i].hasReleasedAt
                                                THEN @ + delta ELSE @]]

alignToReference(recs, reference) ==
    IF recs = <<>> \/ Acquired(recs) = {}
    THEN recs
    ELSE LET delta == reference - minTime(recs)
         IN  [i \in 1 .. Len(recs) |->
                 [recs[i] EXCEPT !.acquiredAt = IF @ # 0 THEN @ + delta ELSE @,
                                 !.releasedAt = IF recs[i].hasReleasedAt
                                                THEN @ + delta ELSE @]]

\* a.mergeRecords(externalRecords), the call of a client thread
MergeRecords(t, rc, externalRecords) ==
    /\ pc[t] = "idle"
    /\ nextCall <= MaxCalls
    /\ mutex[rc] = NoThread
    /\ records' = [records EXCEPT ![rc] = mergeRecords(@, externalRecords)]
    /\ last' = [op |-> "mergeRecords", rc |-> rc, before |-> records[rc],
                batch |-> externalRecords]
    /\ nextCall' = nextCall + 1
    /\ UNCHANGED <<backend, deviceName, mutex, activeTelemetry, clock, pc, frame, issued>>
    /\ UNCHANGED anchorVars
    /\ UNCHANGED extVars

\* a.merge(b), the call of a client thread
Merge(t, rc, other) ==
    /\ pc[t] = "idle"
    /\ nextCall <= MaxCalls
    /\ mutex[rc] = NoThread
    /\ mutex[other] = NoThread
    /\ LET own == merge(Recorder(rc), Recorder(other), rc = other)
       IN  /\ records' = [records EXCEPT ![rc] = own.records]
           /\ backend' = [backend EXCEPT ![rc] = own.backend]
           /\ deviceName' = [deviceName EXCEPT ![rc] = own.deviceName]
    /\ last' = [op |-> "merge", rc |-> rc, other |-> other,
                before |-> Recorder(rc), otherBefore |-> Recorder(other)]
    /\ nextCall' = nextCall + 1
    /\ UNCHANGED <<mutex, activeTelemetry, clock, pc, frame, issued>>
    /\ UNCHANGED anchorVars
    /\ UNCHANGED extVars

\* a.alignToReference(reference), the call of a client thread
AlignToReference(t, rc, reference) ==
    /\ pc[t] = "idle"
    /\ nextCall <= MaxCalls
    /\ mutex[rc] = NoThread
    /\ records' = [records EXCEPT ![rc] = alignToReference(@, reference)]
    /\ LET again == /\ last.op = "alignToReference"
                    /\ last.rc = rc
                    /\ last.ref = reference
       IN  last' = [op |-> "alignToReference", rc |-> rc, ref |-> reference,
                    before |-> records[rc], again |-> again,
                    first |-> IF again THEN last.before ELSE <<>>]
    /\ nextCall' = nextCall + 1
    /\ UNCHANGED <<backend, deviceName, mutex, activeTelemetry, clock, pc, frame, issued>>
    /\ UNCHANGED anchorVars
    /\ UNCHANGED extVars

\* a.setBackendMetadata(backend, deviceName), the call of a client thread
SetBackendMetadata(t, rc, in) ==
    /\ pc[t] = "idle"
    /\ nextCall <= MaxCalls
    /\ mutex[rc] = NoThread
    /\ LET own == setBackendMetadata(Recorder(rc), in[1], in[2])
       IN  /\ records' = [records EXCEPT ![rc] = own.records]
           /\ backend' = [backend EXCEPT ![rc] = own.backend]
           /\ deviceName' = [deviceName EXCEPT ![rc] = own.deviceName]
    /\ last' = [op |-> "setBackendMetadata", rc |-> rc, before |-> Recorder(rc)]
    /\ nextCall' = nextCall + 1
    /\ UNCHANGED <<mutex, activeTelemetry, clock, pc, frame, issued>>
    /\ UNCHANGED anchorVars
    /\ UNCHANGED extVars

\* ------------------------------------------------------------------------
\* ClampAnchor with a recorder attached
\* ------------------------------------------------------------------------
\* the critical section of recordAcquire on the members of one recorder
acquireBody(own, record) ==
    LET be == DefaultIfEmpty(own.backend, "CPU")
        dev == DefaultIfEmpty(own.deviceName, "host")
    IN  [backend |-> be, deviceName |-> dev,
         records |-> Append(own.records,
                            [record EXCEPT !.backend = be, !.deviceName = dev])]

\* ClampAnchor::attachTelemetry.  The owner attaches a recorder to an anchor
\* that has none, or attaches the same recorder again.
AttachTelemetry(a, rc) ==
    /\ ~aborted
    /\ alive[a]
    /\ telemetry[a] \in {NullRecorder, rc}
    /\ anchor[a].state # "Locked" \/ telemetry[a] = rc
    /\ telemetry' = [telemetry EXCEPT ![a] = rc]
    /\ last' = [op |-> "attachTelemetry", self |-> a, rc |-> rc]
    /\ UNCHANGED <<activeTelemetryRecord, served>>
    /\ UNCHANGED anchorVars
    /\ UNCHANGED recorderVars
    /\ UNCHANGED <<aggregateVars, percentileVars, toolVars>>

\* ClampAnchor::lock with telemetry_: a lock that reaches Locked calls
\* telemetry_->recordAcquire(ctx, seed) and keeps the handle
FlowLock(a, ctx, seed) ==
    /\ ~aborted
    /\ alive[a]
    /\ WillGenerate(a) => nextAcq <= MaxAcq
    /\ LET r == lock(Run(anchor[a]), ctx, seed, nextAcq)
           rc == telemetry[a]
           acquires == WillGenerate(a) /\ rc # NullRecorder
           own == acquireBody(Recorder(rc), NewRecord(ctx, seed, a, clock, nextAcq))
           handle == acquireHandle(own.records)
       IN  /\ anchor' = [anchor EXCEPT ![a] = r.st]
           /\ trace' = r.log
           /\ aborted' = (r.fail /\ ~ndebug)
           /\ IF acquires
              THEN /\ records' = [records EXCEPT ![rc] = own.records]
                   /\ backend' = [backend EXCEPT ![rc] = own.backend]
                   /\ deviceName' = [deviceName EXCEPT ![rc] = own.deviceName]
                   /\ issued' = [issued EXCEPT ![rc] =
                                    Append(@, [call |-> nextAcq, handle |-> handle,
                                               thread |-> a])]
                   /\ activeTelemetry' = rc
                   /\ activeTelemetryRecord' = [activeTelemetryRecord EXCEPT ![a] = handle]
                   /\ served' = [served EXCEPT ![rc].locks = @ + 1]
              ELSE UNCHANGED <<records, backend, deviceName, issued, activeTelemetry,
                               activeTelemetryRecord, served>>
           /\ last' = [op |-> "flowLock", self |-> a, ctx |-> ctx,
                       seed |-> IF WillGenerate(a) THEN seed ELSE 0,
                       pre |-> anchor[a], rc |-> rc, before |-> records,
                       handle |-> activeTelemetryRecord[a]]
    /\ nextAcq' = IF WillGenerate(a) THEN nextAcq + 1 ELSE nextAcq
    /\ legal' = [legal EXCEPT ![a] = @ /\ anchor[a].state = "Unlocked"]
    /\ UNCHANGED <<alive, ndebug, telemetry>>
    /\ UNCHANGED <<mutex, clock, pc, frame, nextCall>>
    /\ UNCHANGED <<aggregateVars, percentileVars, toolVars>>

\* ClampAnchor::release with telemetry_: a release from Locked calls
\* telemetry_->recordRelease(handle, context, seed, 1.0) and drops the handle
FlowRelease(a) ==
    /\ ~aborted
    /\ alive[a]
    /\ LET r == release(Run(anchor[a]))
           rc == telemetry[a]
           wasLocked == anchor[a].state = "Locked"
           releases == wasLocked /\ rc # NullRecorder
                          /\ activeTelemetryRecord[a] # NoRecord
       IN  /\ anchor' = [anchor EXCEPT ![a] = r.st]
           /\ trace' = r.log
           /\ aborted' = (r.fail /\ ~ndebug)
           /\ IF releases
              THEN /\ records' = [records EXCEPT ![rc] =
                                     releaseBody(@, activeTelemetryRecord[a], clock,
                                                 anchor[a].context, anchor[a].entropySeed,
                                                 1000, backend[rc], deviceName[rc])]
                   /\ served' = [served EXCEPT ![rc].releases = @ + 1]
              ELSE UNCHANGED <<records, served>>
           /\ activeTelemetryRecord' =
                 IF wasLocked THEN [activeTelemetryRecord EXCEPT ![a] = NoRecord]
                 ELSE activeTelemetryRecord
           /\ last' = [op |-> "flowRelease", self |-> a, pre |-> anchor[a], rc |-> rc,
                       before |-> records, handle |-> activeTelemetryRecord[a]]
    /\ legal' = [legal EXCEPT ![a] = @ /\ anchor[a].state = "Locked"]
    /\ UNCHANGED <<alive, nextAcq, ndebug, telemetry>>
    /\ UNCHANGED <<backend, deviceName, mutex, activeTelemetry, clock, pc, frame,
                   nextCall, issued>>
    /\ UNCHANGED <<aggregateVars, percentileVars, toolVars>>

\* ------------------------------------------------------------------------
\* TemporalAggregator: double values, RunningStats, computePercentile
\* ------------------------------------------------------------------------
\* A double is modelled exactly: a finite value is a reduced fraction n/d
\* with d > 0, every non-finite value (NaN, +-inf) is the one value NaN.
\* Rounding of the binary representation is not modelled.
RECURSIVE GCD(_, _)
GCD(a, b) == IF b = 0 THEN a ELSE GCD(b, a % b)

Abs(x) == IF x < 0 THEN 0 - x ELSE x

\* the double with value n/d (d # 0)
Num(n, d) ==
    LET g == GCD(Abs(n), Abs(d))
        s == IF d < 0 THEN 0 - 1 ELSE 1
    IN [fin |-> TRUE, n |-> (s * n) \div g, d |-> (s * d) \div g]

Zero == Num(0, 1)
One == Num(1, 1)
NaN == [fin |-> FALSE, n |-> 0, d |-> 1]

\* std::isfinite
isfinite(value) == value.fin

\* a + b
DAdd(a, b) ==
    IF ~a.fin \/ ~b.fin THEN NaN
    ELSE LET g == GCD(a.d, b.d)
         IN Num((a.n * (b.d \div g)) + (b.n * (a.d \div g)), (a.d \div g) * b.d)

\* a - b
DSub(a, b) == DAdd(a, [b EXCEPT !.n = 0 - b.n])

\* a * b
DMul(a, b) ==
    IF ~a.fin \/ ~b.fin THEN NaN ELSE Num(a.n * b.n, a.d * b.d)

\* a / static_cast<double>(k) for a count k > 0
DDiv(a, k) == IF ~a.fin THEN NaN ELSE Num(a.n, a.d * k)

\* a < b: every comparison with a non-finite operand is taken as false
DLess(a, b) == a.fin /\ b.fin /\ (a.n * b.d) < (b.n * a.d)

\* static_cast<std::size_t>(std::floor(a)) for a finite a >= 0
DFloor(a) == a.n \div a.d

\* RunningStats{}: the default member initialisers
InitStats == [count |-> 0, mean |-> Zero, m2 |-> Zero]

\* RunningStats::add with the squared first delta in place of delta * delta2
add_squaresDelta(st, value) ==
    IF ~isfinite(value) THEN st
    ELSE LET count == st.count + 1
             delta == DSub(value, st.mean)
             mean == DAdd(st.mean, DDiv(delta, count))
         IN [count |-> count, mean |-> mean,
             m2 |-> DAdd(st.m2, DMul(delta, delta))]

\* RunningStats::add
add(st, value) ==
    IF ~isfinite(value) THEN st
    ELSE LET count == st.count + 1
             delta == DSub(value, st.mean)
             mean == DAdd(st.mean, DDiv(delta, count))
             delta2 == DSub(value, mean)
         IN [count |-> count, mean |-> mean,
             m2 |-> DAdd(st.m2, DMul(delta, delta2))]

\* RunningStats::variance
variance(st) == IF st.count < 2 THEN Zero ELSE DDiv(st.m2, st.count - 1)

\* std::clamp(value, lo, hi)
clamp(value, lo, hi) ==
    IF DLess(value, lo) THEN lo ELSE IF DLess(hi, value) THEN hi ELSE value

\* the value std::nth_element leaves at position index (0-based): the one
\* that an ascending arrangement has there, found by counting ranks
nth_element(values, index) ==
    CHOOSE v \in {values[i] : i \in 1 .. Len(values)} :
        /\ Cardinality({i \in 1 .. Len(values) : DLess(values[i], v)}) <= index
        /\ index < Cardinality({i \in 1 .. Len(values) : ~DLess(v, values[i])})

\* computePercentile taking the index one past the floor
computePercentile_nextIndex(values, percentile) ==
    IF Len(values) = 0 THEN Zero
    ELSE IF Len(values) = 1 THEN values[1]
    ELSE LET clamped == clamp(percentile, Zero, One)
             scaledIndex == DMul(clamped, Num(Len(values) - 1, 1))
             index == IF DFloor(scaledIndex) < Len(values) - 1
                      THEN DFloor(scaledIndex) + 1 ELSE DFloor(scaledIndex)
         IN nth_element(values, index)

\* computePercentile.  The vector is passed by reference and rearranged by
\* std::nth_element; its one caller passes a local that is dead after the
\* call, so only the returned value is modelled.
computePercentile(values, percentile) ==
    IF Len(values) = 0 THEN Zero
    ELSE IF Len(values) = 1 THEN values[1]
    ELSE LET clamped == clamp(percentile, Zero, One)
             scaledIndex == DMul(clamped, Num(Len(values) - 1, 1))
             index == DFloor(scaledIndex)
         IN nth_element(values, index)

\* ------------------------------------------------------------------------
\* TemporalAggregator: telemetry documents and the two parsers
\* ------------------------------------------------------------------------
\* A JSON member as parseJsonWithNlohmann sees it: absent, a number, a
\* string (ok: std::stod accepts it, v: the value std::stod returns)
JAbsent == [kind |-> "absent", ok |-> FALSE, v |-> Zero]
JNumber(v) == [kind |-> "number", ok |-> TRUE, v |-> v]
JString(ok, v) == [kind |-> "string", ok |-> ok, v |-> v]

\* an element of the "records" array; backend and deviceName are "" when
\* the member is absent
JEntry(score, duration, be, dev) ==
    [stability_score |-> score, duration_ms |-> duration,
     backend |-> be, deviceName |-> dev]

\* the parse tree of a document; valid is FALSE when nlohmann::json::parse
\* discards the text
JDocument(be, dev, hasRecords, entries) ==
    [valid |-> TRUE, backend |-> be, deviceName |-> dev,
     hasRecords |-> hasRecords, entries |-> entries]
JDiscarded ==
    [valid |-> FALSE, backend |-> "", deviceName |-> "",
     hasRecords |-> FALSE, entries |-> <<>>]

\* What parseJsonFallback reads off one line after its white space is
\* removed: the tests on the line's text, the token after the first
\* "stability_score" and "duration_ms" key (found: key and colon present,
\* ok: std::stod accepts the cleaned token, v: its value) and the string
\* values it extracts ("" when there is none)
NoToken == [found |-> FALSE, ok |-> FALSE, v |-> Zero]
BadToken == [found |-> TRUE, ok |-> FALSE, v |-> Zero]
Token(v) == [found |-> TRUE, ok |-> TRUE, v |-> v]

PlainLine ==
    [startsRecords |-> FALSE, hasLBracket |-> FALSE, hasLBrace |-> FALSE,
     single |-> FALSE, startsBackend |-> FALSE, startsDevice |-> FALSE,
     firstValue |-> "", score |-> NoToken, duration |-> NoToken,
     backend |-> "", deviceName |-> "", device_name |-> "",
     hasRBracket |-> FALSE, hasRBrace |-> FALSE]

\* {
OpenLine == [PlainLine EXCEPT !.hasLBrace = TRUE, !.single = TRUE]
\* }
CloseLine == [PlainLine EXCEPT !.hasRBrace = TRUE, !.single = TRUE]
\* },
CloseCommaLine == [PlainLine EXCEPT !.hasRBrace = TRUE]
\* "records": [
RecordsLine == [PlainLine EXCEPT !.startsRecords = TRUE, !.hasLBracket = TRUE]
\* ]
EndArrayLine == [PlainLine EXCEPT !.hasRBracket = TRUE, !.single = TRUE]
\* "stability_score": <v>,
ScoreLine(v) == [PlainLine EXCEPT !.score = Token(v)]
\* "duration_ms": <v>
DurationLine(v) == [PlainLine EXCEPT !.duration = Token(v)]
\* {"stability_score": <score>, "duration_ms": <duration>},
RecordLine(score, duration) ==
    [PlainLine EXCEPT !.hasLBrace = TRUE, !.hasRBrace = TRUE,
                      !.score = score, !.duration = duration]

\* test_aggregator_extended.cpp, writeTelemetryFile with {0.5, 10}, {0.7, 20}:
\* one member per line
PrettyDocument ==
    [json |-> JDocument("", "", TRUE,
                 <<JEntry(JNumber(Num(1, 2)), JNumber(Num(10, 1)), "", ""),
                   JEntry(JNumber(Num(7, 10)), JNumber(Num(20, 1)), "", "")>>),
     lines |-> <<OpenLine, RecordsLine,
                 OpenLine, ScoreLine(Num(1, 2)), DurationLine(Num(10, 1)),
                 CloseCommaLine,
                 OpenLine, ScoreLine(Num(7, 10)), DurationLine(Num(20, 1)),
                 CloseLine,
                 EndArrayLine, CloseLine>>]

\* the session_b.json of the inspection test: one record per line, the
\* second record without a stability_score
InlineDocument ==
    [json |-> JDocument("", "", TRUE,
                 <<JEntry(JNumber(One), JNumber(Num(30, 1)), "", ""),
                   JEntry(JAbsent, JAbsent, "", "")>>),
     lines |-> <<OpenLine, RecordsLine,
                 RecordLine(Token(One), Token(Num(30, 1))),
                 RecordLine(NoToken, NoToken),
                 EndArrayLine, CloseLine>>]

\* the session_bad.json of the inspection test: well-formed JSON whose one
\* record has "stability_score": "oops"
OopsDocument ==
    [json |-> JDocument("", "", TRUE,
                 <<JEntry(JString(FALSE, Zero), JNumber(Num(15, 1)), "", "")>>),
     lines |-> <<OpenLine, RecordsLine,
                 RecordLine(BadToken, Token(Num(15, 1))),
                 EndArrayLine, CloseLine>>]

\* test_aggregator_extended.cpp, writeMalformedTelemetry: the one line
\* { "records": [ { "stability_score": "oops" } ]   without the closing brace
MalformedDocument ==
    [json |-> JDiscarded,
     lines |-> <<[PlainLine EXCEPT !.hasLBracket = TRUE, !.hasLBrace = TRUE,
                                   !.score = BadToken,
                                   !.hasRBracket = TRUE, !.hasRBrace = TRUE]>>]

\* the text EntropyTelemetry::toJson writes for a recorder with backend
\* "CPU", device "host" and one released record of score 1 and duration 1:
\* {"backend":"CPU","deviceName":"host","device_name":"host",
\*  "stability_score":1.000000,"records": [{"context":...,"backend":"CPU",
\*  ...,"duration_ms":1.000,"stability_score":1}] }     all on one line
CompactDocument ==
    [json |-> JDocument("CPU", "host", TRUE,
                 <<JEntry(JNumber(One), JNumber(One), "CPU", "host")>>),
     lines |-> <<[PlainLine EXCEPT !.hasLBracket = TRUE, !.hasLBrace = TRUE,
                                   !.firstValue = "CPU",
                                   !.score = Token(One), !.duration = Token(One),
                                   !.backend = "CPU", !.deviceName = "host",
                                   !.device_name = "host",
                                   !.hasRBracket = TRUE, !.hasRBrace = TRUE]>>]

\* the text EntropyTelemetry::toJson writes for a recorder with backend
\* "HIP", device "gfx" and one released record of score 0.5 and duration 2,
\* all on one line
HipDocument ==
    [json |-> JDocument("HIP", "gfx", TRUE,
                 <<JEntry(JNumber(Num(1, 2)), JNumber(Num(2, 1)), "HIP", "gfx")>>),
     lines |-> <<[PlainLine EXCEPT !.hasLBracket = TRUE, !.hasLBrace = TRUE,
                                   !.firstValue = "HIP",
                                   !.score = Token(Num(1, 2)),
                                   !.duration = Token(Num(2, 1)),
                                   !.backend = "HIP", !.deviceName = "gfx",
                                   !.device_name = "gfx",
                                   !.hasRBracket = TRUE, !.hasRBrace = TRUE]>>]

\* the text EntropyTelemetry::toJson writes for a recorder whose backend
\* is named "meanStability" and whose device is named "mean_stability",
\* with one released record of score 0.75 and duration 2, all on one line
KeyNamedDocument ==
    [json |-> JDocument("meanStability", "mean_stability", TRUE,
                 <<JEntry(JNumber(Num(3, 4)), JNumber(Num(2, 1)),
                          "meanStability", "mean_stability")>>),
     lines |-> <<[PlainLine EXCEPT !.hasLBracket = TRUE, !.hasLBrace = TRUE,
                                   !.firstValue = "meanStability",
                                   !.score = Token(Num(3, 4)),
                                   !.duration = Token(Num(2, 1)),
                                   !.backend = "meanStability",
                                   !.deviceName = "mean_stability",
                                   !.device_name = "mean_stability",
                                   !.hasRBracket = TRUE, !.hasRBrace = TRUE]>>]

\* a one-member-per-line document cut off after its first record:
\* {  "records": [  {  "stability_score": 0.5,  "duration_ms": 10  },
TruncatedDocument ==
    [json |-> JDiscarded,
     lines |-> <<OpenLine, RecordsLine,
                 OpenLine, ScoreLine(Num(1, 2)), DurationLine(Num(10, 1)),
                 CloseCommaLine>>]

\* the text "not json"
TextDocument == [json |-> JDiscarded, lines |-> <<PlainLine>>]

\* ParsedRecord{} and ParsedFile{}: the default member initialisers
\* (timestampMs is read by loadSessions only and is left out)
EmptyParsedRecord ==
    [stabilityScore |-> Zero, durationMs |-> Zero,
     hasStability |-> FALSE, hasDuration |-> FALSE]
EmptyParsedFile == [records |-> <<>>, backend |-> "", deviceName |-> ""]

\* the first non-empty backend member of the entries, "" if there is none
RECURSIVE firstBackend(_)
firstBackend(entries) ==
    IF entries = <<>> THEN ""
    ELSE IF Head(entries).backend # "" THEN Head(entries).backend
    ELSE firstBackend(Tail(entries))

\* one member read as a double: <<has, value>> after the try block
readMember(member, was) ==
    IF member.kind = "number" THEN <<TRUE, member.v>>
    ELSE IF member.kind = "string"
         THEN (IF member.ok THEN <<TRUE, member.v>> ELSE <<FALSE, was>>)
    ELSE <<FALSE, was>>

\* the loop of parseJsonWithNlohmann over data["records"]
RECURSIVE nlohmannRecords(_, _)
nlohmannRecords(entries, parsed) ==
    IF entries = <<>> THEN parsed
    ELSE LET entry == Head(entries)
             score == readMember(entry.stability_score, Zero)
             duration == readMember(entry.duration_ms, Zero)
             record == [stabilityScore |-> score[2], durationMs |-> duration[2],
                        hasStability |-> score[1], hasDuration |-> duration[1]]
             pushed ==
                 [records |-> Append(parsed.records, record),
                  backend |-> IF parsed.backend = "" THEN entry.backend
                              ELSE parsed.backend,
                  deviceName |-> IF parsed.deviceName = "" THEN entry.deviceName
                                 ELSE parsed.deviceName]
         IN nlohmannRecords(Tail(entries),
                            IF record.hasStability THEN pushed ELSE parsed)

\* parseJsonWithNlohmann
parseJsonWithNlohmann(json) ==
    IF ~json.valid THEN EmptyParsedFile
    ELSE LET parsed ==
                 [records |-> <<>>,
                  backend |-> IF json.backend = "" /\ json.hasRecords
                              THEN firstBackend(json.entries) ELSE json.backend,
                  deviceName |-> json.deviceName]
         IN IF ~json.hasRecords THEN parsed
            ELSE nlohmannRecords(json.entries, parsed)

\* the locals of parseJsonFallback before its first line
InitFallback ==
    [parsed |-> EmptyParsedFile, record |-> EmptyParsedRecord,
     inRecord |-> FALSE, inRecordsArray |-> FALSE,
     recordBackend |-> "", recordDevice |-> ""]

\* one token read as a double, as the try block around std::stod does
readToken(token, has, value) ==
    IF ~token.found THEN <<has, value>>
    ELSE IF token.ok THEN <<TRUE, token.v>> ELSE <<FALSE, value>>

\* the part of the loop body of parseJsonFallback after the two continue
\* statements, on the locals s
fallbackRest(s, line) ==
    LET top ==
            IF s.inRecord THEN s.parsed
            ELSE IF line.startsBackend /\ s.parsed.backend = ""
                 THEN [s.parsed EXCEPT !.backend = line.firstValue]
            ELSE IF line.startsDevice /\ s.parsed.deviceName = ""
                 THEN [s.parsed EXCEPT !.deviceName = line.firstValue]
            ELSE s.parsed
        score == readToken(line.score, s.record.hasStability, s.record.stabilityScore)
        duration == readToken(line.duration, s.record.hasDuration, s.record.durationMs)
        record == [stabilityScore |-> score[2], durationMs |-> duration[2],
                   hasStability |-> score[1], hasDuration |-> duration[1]]
        recordBackend ==
            IF s.inRecord /\ line.backend # "" THEN line.backend ELSE s.recordBackend
        device1 ==
            IF s.inRecord /\ line.deviceName # "" THEN line.deviceName ELSE s.recordDevice
        recordDevice ==
            IF s.inRecord /\ device1 = "" /\ line.device_name # ""
            THEN line.device_name ELSE device1
        inRecordsArray ==
            IF line.hasRBracket /\ ~s.inRecord THEN FALSE ELSE s.inRecordsArray
        closes == line.hasRBrace /\ s.inRecord
        pushed ==
            [records |-> Append(top.records, record),
             backend |-> IF top.backend = "" THEN recordBackend ELSE top.backend,
             deviceName |-> IF top.deviceName = "" THEN recordDevice ELSE top.deviceName]
    IN [parsed |-> IF closes /\ record.hasStability THEN pushed ELSE top,
        record |-> record,
        inRecord |-> IF closes THEN FALSE ELSE s.inRecord,
        inRecordsArray |-> inRecordsArray,
        recordBackend |-> recordBackend,
        recordDevice |-> recordDevice]

\* the loop body of parseJsonFallback for one line
fallbackLine(s, line) ==
    LET s1 == IF line.startsRecords THEN [s EXCEPT !.inRecordsArray = TRUE] ELSE s
        opens == ~s1.inRecord /\ s1.inRecordsArray /\ line.hasLBrace
        s2 == IF opens
              THEN [s1 EXCEPT !.inRecord = TRUE, !.record = EmptyParsedRecord,
                              !.recordBackend = "", !.recordDevice = ""]
              ELSE s1
    IN IF s1.inRecordsArray /\ line.hasLBracket THEN s1
       ELSE IF opens /\ line.single THEN s2
       ELSE fallbackRest(s2, line)

\* the while loop of parseJsonFallback
RECURSIVE fallbackLines(_, _)
fallbackLines(s, lines) ==
    IF lines = <<>> THEN s
    ELSE fallbackLines(fallbackLine(s, Head(lines)), Tail(lines))

\* parseJsonFallback
parseJsonFallback(lines) == fallbackLines(InitFallback, lines).parsed

\* parseTelemetryFile on a file that can be opened: the parser the build
\* selected with CLAMP_HAS_NLOHMANN_JSON
parseTelemetryFile(document, nlohmann) ==
    IF nlohmann THEN parseJsonWithNlohmann(document.json)
    ELSE parseJsonFallback(document.lines)

\* ------------------------------------------------------------------------
\* TemporalAggregator::aggregate
\* ------------------------------------------------------------------------
\* a directory entry: is_regular_file(), path().extension() and the text
File(extension, document) ==
    [regular |-> TRUE, extension |-> extension, document |-> document]

\* the entries a telemetry directory is made of: the session files of the
\* tests, a recorder's own export, damaged files, two files that are not
\* .json files and a subdirectory whose name ends in .json
DirectoryEntries ==
    {File(".json", PrettyDocument), File(".json", InlineDocument),
     File(".json", OopsDocument), File(".json", MalformedDocument),
     File(".json", CompactDocument), File(".json", TruncatedDocument),
     File(".txt", TextDocument), File(".txt", PrettyDocument),
     [regular |-> FALSE, extension |-> ".json", document |-> TextDocument]}

\* the listings of at most MaxFiles entries, in directory_iterator order
Listings == UNION {[1 .. k -> DirectoryEntries] : k \in 0 .. MaxFiles}

\* the listings of k entries among which two recorders' exports name
\* different backends and devices, next to a session file that names none,
\* a damaged file and a text file
LabelledListings(k) ==
    [1 .. k -> {File(".json", PrettyDocument), File(".json", CompactDocument),
                File(".json", HipDocument), File(".json", MalformedDocument),
                File(".txt", TextDocument)}]

\* the listings of k entries among exports whose labels are ordinary names
\* or names of summary keys, a session file and a text file
RoundTripListings(k) ==
    [1 .. k -> {File(".json", PrettyDocument), File(".json", CompactDocument),
                File(".json", HipDocument), File(".json", KeyNamedDocument),
                File(".txt", TextDocument)}]

\* Summary{}: the default member initialisers; done is the history flag
\* "aggregate has returned"
DefaultSummary ==
    [done |-> FALSE, meanStability |-> Zero, variance |-> Zero,
     driftPercentile |-> Zero, sessionCount |-> 0, stabilityVariance |-> Zero,
     driftIndex |-> Zero, backend |-> "", deviceName |-> ""]

\* the locals of aggregate before its loop; cursor is the position of the
\* directory_iterator
InitFrame ==
    [cursor |-> 0, durations |-> <<>>, detectedBackend |-> "",
     detectedDevice |-> "", mixedBackend |-> FALSE, mixedDevice |-> FALSE]

\* the record loop of aggregate: <<stats, durations, scores folded>>
RECURSIVE foldRecords(_, _)
foldRecords(acc, recs) ==
    IF recs = <<>> THEN acc
    ELSE LET record == Head(recs)
             skip == ~record.hasStability \/ ~isfinite(record.stabilityScore)
             keeps == /\ record.hasDuration
                      /\ isfinite(record.durationMs)
                      /\ ~DLess(record.durationMs, Zero)
         IN foldRecords(
                IF skip THEN acc
                ELSE <<add(acc[1], record.stabilityScore),
                       IF keeps THEN Append(acc[2], record.durationMs) ELSE acc[2],
                       Append(acc[3], record.stabilityScore)>>,
                Tail(recs))

\* aggregate on a path that does not exist
AggregateMissing ==
    /\ ~summary.done
    /\ ~telemetryDir.exists
    /\ summary' = [DefaultSummary EXCEPT !.done = TRUE]
    /\ UNCHANGED <<hasNlohmann, telemetryDir, stats, folded, aggregateFrame>>
    /\ UNCHANGED <<anchorVars, last, recorderVars, flowVars, percentileVars, toolVars>>

\* the body of the loop of aggregate for one directory entry, on the locals
\* [frame, stats, folded], with the label taken from the last file that
\* names one and never "mixed"
loopBody_lastLabel(st, entry, nlohmann) ==
    LET f == [st.frame EXCEPT !.cursor = @ + 1]
        parsedFile == parseTelemetryFile(entry.document, nlohmann)
        f1 == IF parsedFile.backend = "" THEN f
              ELSE [f EXCEPT !.detectedBackend = parsedFile.backend]
        f2 == IF parsedFile.deviceName = "" THEN f1
              ELSE [f1 EXCEPT !.detectedDevice = parsedFile.deviceName]
        acc == foldRecords(<<st.stats, f2.durations, st.folded>>, parsedFile.records)
    IN IF ~entry.regular \/ entry.extension # ".json"
       THEN [st EXCEPT !.frame = f]
       ELSE [frame |-> [f2 EXCEPT !.durations = acc[2]],
             stats |-> acc[1], folded |-> acc[3]]

\* the body of the loop of aggregate for one directory entry, on the locals
\* [frame, stats, folded]
loopBody(st, entry, nlohmann) ==
    LET f == [st.frame EXCEPT !.cursor = @ + 1]
        parsedFile == parseTelemetryFile(entry.document, nlohmann)
        f1 == IF parsedFile.backend = "" THEN f
              ELSE IF f.detectedBackend = ""
                   THEN [f EXCEPT !.detectedBackend = parsedFile.backend]
              ELSE IF f.detectedBackend # parsedFile.backend
                   THEN [f EXCEPT !.mixedBackend = TRUE]
              ELSE f
        f2 == IF parsedFile.deviceName = "" THEN f1
              ELSE IF f1.detectedDevice = ""
                   THEN [f1 EXCEPT !.detectedDevice = parsedFile.deviceName]
              ELSE IF f1.detectedDevice # parsedFile.deviceName
                   THEN [f1 EXCEPT !.mixedDevice = TRUE]
              ELSE f1
        acc == foldRecords(<<st.stats, f2.durations, st.folded>>, parsedFile.records)
    IN IF ~entry.regular \/ entry.extension # ".json"
       THEN [st EXCEPT !.frame = f]
       ELSE [frame |-> [f2 EXCEPT !.durations = acc[2]],
             stats |-> acc[1], folded |-> acc[3]]

\* the Summary aggregate fills in after the loop, from the locals
makeSummary(st) ==
    LET f == st.frame
        drift == computePercentile(f.durations, Num(19, 20))
    IN [done |-> TRUE,
        sessionCount |-> st.stats.count,
        meanStability |-> st.stats.mean,
        variance |-> variance(st.stats),
        stabilityVariance |-> variance(st.stats),
        driftPercentile |-> drift,
        driftIndex |-> drift,
        backend |-> IF f.mixedBackend THEN "mixed"
                    ELSE IF f.detectedBackend = "" THEN "unknown"
                    ELSE f.detectedBackend,
        deviceName |-> IF f.mixedDevice THEN "mixed"
                       ELSE IF f.detectedDevice = "" THEN "unspecified"
                       ELSE f.detectedDevice]

\* the locals of aggregate after the loop has gone through the entries
RECURSIVE loopOver(_, _, _)
loopOver(st, entries, nlohmann) ==
    IF entries = <<>> THEN st
    ELSE loopOver(loopBody(st, Head(entries), nlohmann), Tail(entries), nlohmann)

\* aggregate on an existing directory whose iterator yields the entries
aggregate(entries, nlohmann) ==
    makeSummary(loopOver([frame |-> InitFrame, stats |-> InitStats, folded |-> <<>>],
                         entries, nlohmann))

\* one pass of the loop of aggregate over the directory entries
AggregateEntry ==
    /\ ~summary.done
    /\ telemetryDir.exists
    /\ aggregateFrame.cursor < Len(telemetryDir.entries)
    /\ LET st == loopBody([frame |-> aggregateFrame, stats |-> stats, folded |-> folded],
                          telemetryDir.entries[aggregateFrame.cursor + 1], hasNlohmann)
       IN /\ aggregateFrame' = st.frame
          /\ stats' = st.stats
          /\ folded' = st.folded
    /\ UNCHANGED <<hasNlohmann, telemetryDir, summary>>
    /\ UNCHANGED <<anchorVars, last, recorderVars, flowVars, percentileVars, toolVars>>

\* the end of aggregate, after the last directory entry
AggregateReturn ==
    /\ ~summary.done
    /\ telemetryDir.exists
    /\ aggregateFrame.cursor = Len(telemetryDir.entries)
    /\ summary' = makeSummary([frame |-> aggregateFrame, stats |-> stats,
                               folded |-> folded])
    /\ UNCHANGED <<hasNlohmann, telemetryDir, stats, folded, aggregateFrame>>
    /\ UNCHANGED <<anchorVars, last, recorderVars, flowVars, percentileVars, toolVars>>

\* stats.add(record.stabilityScore) for one more score arriving
AddScore(value) ==
    /\ Len(folded) < MaxScores
    /\ stats' = add(stats, value)
    /\ folded' = IF isfinite(value) THEN Append(folded, value) ELSE folded
    /\ UNCHANGED <<hasNlohmann, telemetryDir, aggregateFrame, summary>>
    /\ UNCHANGED <<anchorVars, last, recorderVars, flowVars, percentileVars, toolVars>>

\* the scores that arrive: the ones of the tests and a non-finite one
ScoreValues == {Num(1, 2), Num(7, 10), Num(9, 10), One, NaN}

\* the arguments computePercentile is called with
DurationValues == {Num(10, 1), Num(20, 1), Num(30, 1), Num(40, 1), Num(50, 1)}
Percentiles == {Num(0 - 1, 2), Zero, Num(1, 2), Num(19, 20), One, Num(3, 2)}
DurationLists == UNION {[1 .. k -> DurationValues] : k \in 0 .. MaxLen}

\* a call of computePercentile on the arguments drawn at the start
ComputePercentile ==
    /\ ~percentileCall.done
    /\ percentileCall' =
         [percentileCall EXCEPT
            !.done = TRUE,
            !.result = computePercentile(percentileCall.values,
                                         percentileCall.percentile)]
    /\ UNCHANGED <<anchorVars, last, recorderVars, flowVars, aggregateVars, toolVars>>

\* ------------------------------------------------------------------------
\* TemporalAggregator: writeSummary, accumulate, loadSummary, loadSessions
\* ------------------------------------------------------------------------
\* escapeJson on the strings of the model: only the one with a quote changes
escapeJson(value) == IF value = "a\"b" THEN "a\\\"b" ELSE value

\* std::fixed << std::setprecision(6) on a double: the decimal with six
\* fractional digits nearest to the value (ties to even), as the number the
\* digits denote; a non-finite value prints as text that denotes no number
fixed6(value) ==
    IF ~value.fin THEN NaN
    ELSE LET a == Abs(value.n) * 1000000
             q == a \div value.d
             r == a % value.d
             up == (2 * r > value.d) \/ (2 * r = value.d /\ q % 2 = 1)
             m == IF up THEN q + 1 ELSE q
         IN Num(IF value.n < 0 THEN 0 - m ELSE m, 1000000)

\* summaryToJson: the object it writes, as what a reader by key finds in
\* the text: under each key the string or the numeric token that follows
\* the first "key" of the text.  A double is written under
\* std::fixed << std::setprecision(6).  The five strings written before the
\* numbers stand between quotes, so a string that is the name of a key is
\* found before the key itself, and what follows its next colon is the
\* value of the member after it: a quoted string, which std::stod rejects,
\* or the sessionCount after device_name.  The five provenance strings
\* (trustStatus .. policyDecision), which aggregate leaves empty and which
\* have no alias, are left out.
summaryToJson(s, sourceDirectory) ==
    LET strings == <<sourceDirectory, sourceDirectory, escapeJson(s.backend),
                     escapeJson(s.deviceName), escapeJson(s.deviceName)>>
        count == Token(Num(s.sessionCount, 1))
        hits(key, before) == {i \in 1 .. before : strings[i] = key}
        first(S) == CHOOSE i \in S : \A j \in S : i <= j
        stringAt(own, key) ==
            IF hits(key, own - 1) = {} THEN strings[own]
            ELSE strings[first(hits(key, own - 1)) + 1]
        numberAt(key, token) ==
            IF hits(key, Len(strings)) = {} THEN token
            ELSE IF first(hits(key, Len(strings))) < Len(strings) THEN BadToken
            ELSE count
    IN [sourceDirectory |-> sourceDirectory,
        source_directory |-> sourceDirectory,
        backend |-> stringAt(3, "backend"),
        deviceName |-> stringAt(4, "deviceName"),
        device_name |-> stringAt(5, "device_name"),
        sessionCount |-> numberAt("sessionCount", count),
        meanStability |-> numberAt("meanStability", Token(fixed6(s.meanStability))),
        variance |-> numberAt("variance", Token(fixed6(s.variance))),
        driftPercentile |-> numberAt("driftPercentile", Token(fixed6(s.driftPercentile))),
        session_count |-> numberAt("session_count", count),
        mean_stability |-> numberAt("mean_stability", Token(fixed6(s.meanStability))),
        stability_variance |-> numberAt("stability_variance",
                                        Token(fixed6(s.stabilityVariance))),
        drift_index |-> numberAt("drift_index", Token(fixed6(s.driftIndex)))]

\* std::ofstream out(outputPath) opened for appending instead of truncating
writeFile_appends(old, text) == old \o <<text>>

\* std::ofstream out(outputPath); out << text: the content of the file
\* afterwards, as the list of the objects in it (<<>>: no such file)
writeFile(old, text) == <<text>>

\* the first run of accumulate before it has happened
NoRun == [summary |-> DefaultSummary, file |-> <<>>,
          dir |-> [exists |-> FALSE, entries |-> <<>>]]

\* accumulate after aggregate: writeSummary on the Summary returned, with
\* telemetryDir.string() as sourceDirectory, to a path outside the
\* telemetry directory; the first call is remembered in runs.first
WriteSummary ==
    /\ summary.done
    /\ ~runs.written
    /\ LET file == writeFile(summaryFile, summaryToJson(summary, "build/telemetry"))
       IN /\ summaryFile' = file
          /\ runs' = [written |-> TRUE, count |-> runs.count,
                      first |-> IF runs.count = 1
                                THEN [summary |-> summary, file |-> file,
                                      dir |-> telemetryDir]
                                ELSE runs.first]
    /\ UNCHANGED <<loaded, sessions, scoring, seedCall>>
    /\ UNCHANGED <<anchorVars, last, recorderVars, flowVars, aggregateVars,
                   percentileVars>>

\* a regular .json file whose text is no JSON document
isCorrupt(entry) ==
    entry.regular /\ entry.extension = ".json" /\ ~entry.document.json.valid

\* between two runs the corrupt files are deleted from the directory
RemoveCorrupt ==
    /\ runs.written
    /\ runs.count = 1
    /\ \E i \in 1 .. Len(telemetryDir.entries) : isCorrupt(telemetryDir.entries[i])
    /\ LET isSound(entry) == ~isCorrupt(entry)
       IN telemetryDir' =
            [telemetryDir EXCEPT !.entries = SelectSeq(@, isSound)]
    /\ UNCHANGED <<hasNlohmann, stats, folded, aggregateFrame, summary>>
    /\ UNCHANGED <<anchorVars, last, recorderVars, flowVars, percentileVars, toolVars>>

\* the second call of aggregate starts: a new Summary and new locals
Rerun ==
    /\ runs.written
    /\ runs.count = 1
    /\ runs' = [runs EXCEPT !.written = FALSE, !.count = 2]
    /\ stats' = InitStats
    /\ folded' = <<>>
    /\ aggregateFrame' = InitFrame
    /\ summary' = DefaultSummary
    /\ UNCHANGED <<hasNlohmann, telemetryDir>>
    /\ UNCHANGED <<summaryFile, loaded, sessions, scoring, seedCall>>
    /\ UNCHANGED <<anchorVars, last, recorderVars, flowVars, percentileVars>>

\* the Summary values handed to writeSummary: the struct is public, each
\* member is set on its own
SummaryValues ==
    [done : {TRUE},
     meanStability : {Zero, Num(11, 15)},
     variance : {Zero, Num(1, 25)},
     stabilityVariance : {Zero, Num(1, 25)},
     driftPercentile : {Zero, Num(20, 1)},
     driftIndex : {Zero, Num(20, 1)},
     sessionCount : {0, 3},
     backend : {"unknown", "CPU", "a\"b"},
     deviceName : {"unspecified", "host"}]

\* loadSummary reading the modern keys only
loadSummary_modernOnly(file) ==
    IF file = <<>> THEN [DefaultSummary EXCEPT !.done = TRUE]
    ELSE LET d == Head(file)
             readValue(token, out) == IF token.found /\ token.ok THEN token.v ELSE out
             dev == IF d.deviceName = "" THEN d.device_name ELSE d.deviceName
         IN [done |-> TRUE,
             backend |-> IF d.backend = "" THEN "unknown" ELSE d.backend,
             deviceName |-> IF dev = "" THEN "unspecified" ELSE dev,
             meanStability |-> readValue(d.meanStability, Zero),
             variance |-> readValue(d.variance, Zero),
             stabilityVariance |-> readValue(d.variance, Zero),
             driftPercentile |-> readValue(d.driftPercentile, Zero),
             driftIndex |-> readValue(d.driftPercentile, Zero),
             sessionCount |-> DFloor(readValue(d.sessionCount, Zero))]

\* loadSummary on the content of the file at summaryPath (<<>>: the file
\* cannot be opened).  Each key is searched from the start of the text, so
\* the first object of the file is the one read; string values are returned
\* as written, escapes included.  readValue replaces out when the key is
\* found and std::stod accepts the token after it; a numeric member is read
\* under the modern key, then under the legacy key when the value is still
\* 0.0.  The cast of sessionCount is taken on finite values >= 0 only.
loadSummary(file) ==
    IF file = <<>> THEN [DefaultSummary EXCEPT !.done = TRUE]
    ELSE LET d == Head(file)
             readValue(token, out) == IF token.found /\ token.ok THEN token.v ELSE out
             readAliased(modern, legacy) ==
                IF readValue(modern, Zero) = Zero
                THEN readValue(legacy, readValue(modern, Zero))
                ELSE readValue(modern, Zero)
             dev == IF d.deviceName = "" THEN d.device_name ELSE d.deviceName
             var == readAliased(d.variance, d.stability_variance)
             drift == readAliased(d.driftPercentile, d.drift_index)
         IN [done |-> TRUE,
             backend |-> IF d.backend = "" THEN "unknown" ELSE d.backend,
             deviceName |-> IF dev = "" THEN "unspecified" ELSE dev,
             meanStability |-> readAliased(d.meanStability, d.mean_stability),
             variance |-> var,
             stabilityVariance |-> var,
             driftPercentile |-> drift,
             driftIndex |-> drift,
             sessionCount |-> DFloor(readAliased(d.sessionCount, d.session_count))]

\* a call of loadSummary on the summary file
LoadSummary ==
    /\ ~loaded.done
    /\ loaded' = loadSummary(summaryFile)
    /\ UNCHANGED <<summaryFile, runs, sessions, scoring, seedCall>>
    /\ UNCHANGED <<anchorVars, last, recorderVars, flowVars, aggregateVars,
                   percentileVars>>

\* the summary files loadSummary is given: none, and objects in which each
\* key is absent, holds a number (zero or not) or holds text that is no
\* number, as in the file { "meanStability": 0.75 } of the inspection test
SummaryFiles ==
    LET modern(x) == {NoToken, Token(Zero), Token(x), BadToken}
        legacy(y) == {NoToken, Token(y), BadToken}
        devices == {<<"", "">>, <<"", "gfx">>, <<"host", "gfx">>}
    IN {<<>>} \cup
       {<<[sourceDirectory |-> "build/telemetry",
           source_directory |-> "build/telemetry",
           backend |-> be, deviceName |-> dev[1], device_name |-> dev[2],
           sessionCount |-> sc, session_count |-> lsc,
           meanStability |-> ms, mean_stability |-> lms,
           variance |-> va, stability_variance |-> lva,
           driftPercentile |-> dp, drift_index |-> ldp]>> :
          be \in {"", "CPU"}, dev \in devices,
          sc \in modern(Num(3, 1)), lsc \in legacy(Num(2, 1)),
          ms \in modern(Num(3, 4)), lms \in legacy(Num(1, 2)),
          va \in modern(Num(1, 25)), lva \in legacy(Num(1, 50)),
          dp \in {NoToken, Token(Num(20, 1))},
          ldp \in {NoToken, Token(Num(30, 1))}}

\* the loop of loadSessions over the directory entries: the statistics
\* of one parsed file, pushed unless stats.count is 0
RECURSIVE collectSessions(_, _)
collectSessions(entries, nlohmann) ==
    IF entries = <<>> THEN <<>>
    ELSE LET entry == Head(entries)
             rest == collectSessions(Tail(entries), nlohmann)
             parsedFile == parseTelemetryFile(entry.document, nlohmann)
             acc == foldRecords(<<InitStats, <<>>, <<>>>>, parsedFile.records)
             drift == computePercentile(acc[2], Num(19, 20))
             metrics ==
               [done |-> TRUE,
                sessionCount |-> acc[1].count,
                meanStability |-> acc[1].mean,
                variance |-> variance(acc[1]),
                stabilityVariance |-> variance(acc[1]),
                driftPercentile |-> drift,
                driftIndex |-> drift,
                backend |-> IF parsedFile.backend = "" THEN "unknown"
                            ELSE parsedFile.backend,
                deviceName |-> IF parsedFile.deviceName = "" THEN "unspecified"
                               ELSE parsedFile.deviceName]
         IN IF ~entry.regular \/ entry.extension # ".json" THEN rest
            ELSE IF acc[1].count = 0 THEN rest
            ELSE <<[source |-> entry.name, metrics |-> metrics]>> \o rest

\* std::sort with lhs.source < rhs.source; a file name is modelled by its
\* rank among the names of the directory
RECURSIVE sortBySource(_)
sortBySource(list) ==
    IF list = <<>> THEN <<>>
    ELSE LET least == CHOOSE i \in 1 .. Len(list) :
                        \A j \in 1 .. Len(list) : list[i].source <= list[j].source
         IN <<list[least]>> \o
            sortBySource(SubSeq(list, 1, least - 1) \o SubSeq(list, least + 1, Len(list)))

\* loadSessions returning the sessions in directory order
loadSessions_unsorted(dir, nlohmann) ==
    IF ~dir.exists THEN <<>> ELSE collectSessions(dir.entries, nlohmann)

\* loadSessions
loadSessions(dir, nlohmann) ==
    IF ~dir.exists THEN <<>>
    ELSE sortBySource(collectSessions(dir.entries, nlohmann))

\* a call of loadSessions by a caller that has run aggregate on the same
\* directory before
LoadSessions ==
    /\ summary.done
    /\ ~sessions.done
    /\ sessions' = [done |-> TRUE, list |-> loadSessions(telemetryDir, hasNlohmann)]
    /\ UNCHANGED <<summaryFile, runs, loaded, scoring, seedCall>>
    /\ UNCHANGED <<anchorVars, last, recorderVars, flowVars, aggregateVars,
                   percentileVars>>

\* the listings of k entries that carry their file names, in every
\* iteration order: session files of the tests, a recorder's export, a
\* text file
NamedListings(k) ==
    LET kinds == {File(".json", PrettyDocument), File(".json", InlineDocument),
                  File(".json", OopsDocument), File(".json", CompactDocument),
                  File(".txt", TextDocument)}
        named(e, n) == [regular |-> e.regular, extension |-> e.extension,
                        document |-> e.document, name |-> n]
    IN {[i \in 1 .. k |-> named(l[i], p[i])] :
           l \in [1 .. k -> kinds],
           p \in {q \in [1 .. k -> 1 .. k] :
                    \A i, j \in 1 .. k : q[i] = q[j] => i = j}}

\* ------------------------------------------------------------------------
\* TemporalScoring: evaluate, evaluateAggregated
\* ------------------------------------------------------------------------
\* a / b for doubles; a zero or non-finite divisor gives a non-finite value
DQuot(a, b) ==
    IF ~a.fin \/ ~b.fin \/ b.n = 0 THEN NaN ELSE Num(a.n * b.d, a.d * b.n)

\* std::abs
DAbs(a) == IF a.fin THEN [a EXCEPT !.n = Abs(a.n)] ELSE a

\* std::accumulate(values.begin(), values.end(), 0.0)
RECURSIVE std_accumulate(_)
std_accumulate(values) ==
    IF values = <<>> THEN Zero
    ELSE DAdd(std_accumulate(SubSeq(values, 1, Len(values) - 1)), values[Len(values)])

computeNormalizedVariance(values) ==
    IF Len(values) < 2 THEN Zero
    ELSE LET mean == DDiv(std_accumulate(values), Len(values))
             squares == [i \in 1 .. Len(values) |->
                           DMul(DSub(values[i], mean), DSub(values[i], mean))]
             sampleVariance == DDiv(std_accumulate(squares), Len(values) - 1)
             scale == DAdd(DAbs(mean), One)
         IN DQuot(sampleVariance, DMul(scale, scale))

\* maxDriftMs: records at the zero time point are skipped; one clock tick
\* is one millisecond
maxDriftMs(batch) ==
    LET stamps == {batch[i].acquiredAt : i \in 1 .. Len(batch)} \ {0}
        maxTs == CHOOSE t \in stamps : \A u \in stamps : u <= t
        minTs == CHOOSE t \in stamps : \A u \in stamps : t <= u
    IN IF stamps = {} THEN Zero ELSE Num(maxTs - minTs, 1)

\* clamp01: both tests are false for a NaN, which is returned as it is
clamp01(value) ==
    IF DLess(value, Zero) THEN Zero
    ELSE IF DLess(One, value) THEN One
    ELSE value

\* TemporalScoringResult{}: the default member initialisers
DefaultScoring ==
    [stabilityScore |-> Zero, entropyVariance |-> Zero, durationVariance |-> Zero,
     driftMs |-> Zero, sampleCount |-> 0]

\* evaluate returning the default-constructed result for an empty batch
evaluate_emptyDefault(batch) ==
    IF batch = <<>> THEN DefaultScoring
    ELSE [DefaultScoring EXCEPT !.stabilityScore = One, !.sampleCount = Len(batch)]

\* TemporalScoring::evaluate
evaluate(batch) ==
    IF batch = <<>> THEN [DefaultScoring EXCEPT !.stabilityScore = One]
    ELSE LET seedValues == [i \in 1 .. Len(batch) |-> Num(batch[i].seed, 1)]
             durations == [i \in 1 .. Len(batch) |-> batch[i].durationMs]
             entropyVariance == clamp01(computeNormalizedVariance(seedValues))
             durationVariance == clamp01(computeNormalizedVariance(durations))
             driftMs == DAbs(maxDriftMs(batch))
             driftComponent == clamp01(DDiv(driftMs, 1000))
             penalty == DDiv(DAdd(DAdd(entropyVariance, durationVariance),
                                  driftComponent), 3)
         IN [stabilityScore |-> clamp01(DSub(One, penalty)),
             entropyVariance |-> entropyVariance,
             durationVariance |-> durationVariance,
             driftMs |-> driftMs,
             sampleCount |-> Len(batch)]

\* the sums of evaluateAggregated after the loop over the groups
RECURSIVE sumGroups(_)
sumGroups(groups) ==
    IF groups = <<>> THEN DefaultScoring
    ELSE LET sums == sumGroups(SubSeq(groups, 1, Len(groups) - 1))
             groupResult == evaluate(groups[Len(groups)])
         IN [stabilityScore |-> DAdd(sums.stabilityScore, groupResult.stabilityScore),
             entropyVariance |-> DAdd(sums.entropyVariance, groupResult.entropyVariance),
             durationVariance |-> DAdd(sums.durationVariance, groupResult.durationVariance),
             driftMs |-> DAdd(sums.driftMs, groupResult.driftMs),
             sampleCount |-> sums.sampleCount + groupResult.sampleCount]

\* evaluateAggregated dividing sampleCount by the number of groups as well
evaluateAggregated_meanCount(groups) ==
    IF groups = <<>> THEN [DefaultScoring EXCEPT !.stabilityScore = One]
    ELSE LET sums == sumGroups(groups)
         IN [stabilityScore |-> DDiv(sums.stabilityScore, Len(groups)),
             entropyVariance |-> DDiv(sums.entropyVariance, Len(groups)),
             durationVariance |-> DDiv(sums.durationVariance, Len(groups)),
             driftMs |-> DDiv(sums.driftMs, Len(groups)),
             sampleCount |-> sums.sampleCount \div Len(groups)]

\* TemporalScoring::evaluateAggregated
evaluateAggregated(groups) ==
    IF groups = <<>> THEN [DefaultScoring EXCEPT !.stabilityScore = One]
    ELSE LET sums == sumGroups(groups)
         IN [stabilityScore |-> DDiv(sums.stabilityScore, Len(groups)),
             entropyVariance |-> DDiv(sums.entropyVariance, Len(groups)),
             durationVariance |-> DDiv(sums.durationVariance, Len(groups)),
             driftMs |-> DDiv(sums.driftMs, Len(groups)),
             sampleCount |-> sums.sampleCount]

\* the records the scorer is given: a recorder's completed record, a later
\* one with a longer duration, and a record built by the caller (the struct
\* is public, mergeRecords takes it as it is) at the zero time point whose
\* durationMs is not a finite number
ScoringRecords ==
    {[seed |-> 2, durationMs |-> One, acquiredAt |-> 1],
     [seed |-> 0, durationMs |-> Num(20, 1), acquiredAt |-> 2001],
     [seed |-> 2, durationMs |-> NaN, acquiredAt |-> 0]}

\* the batches evaluate is given: none, one or two of the records; the
\* lists of k groups
BatchSizes == 0 .. 2
Batches == UNION {[1 .. k -> ScoringRecords] : k \in BatchSizes}
GroupLists(k) == [1 .. k -> Batches]

NoScoring == [op |-> "none", groups |-> <<>>, result |-> DefaultScoring]

\* a call of evaluate
Evaluate ==
    /\ scoring.op = "none"
    /\ \E batch \in Batches :
          scoring' = [op |-> "evaluate", groups |-> <<batch>>,
                      result |-> evaluate(batch)]
    /\ UNCHANGED <<summaryFile, runs, loaded, sessions, seedCall>>
    /\ UNCHANGED <<anchorVars, last, recorderVars, flowVars, aggregateVars,
                   percentileVars>>

\* a call of evaluateAggregated
EvaluateAggregated ==
    /\ scoring.op = "none"
    /\ \E k \in 0 .. MaxGroups : \E groups \in GroupLists(k) :
          scoring' = [op |-> "evaluateAggregated", groups |-> groups,
                      result |-> evaluateAggregated(groups)]
    /\ UNCHANGED <<summaryFile, runs, loaded, sessions, seedCall>>
    /\ UNCHANGED <<anchorVars, last, recorderVars, flowVars, aggregateVars,
                   percentileVars>>

\* ------------------------------------------------------------------------
\* EntropyTracker::generateSeed on two threads
\* ------------------------------------------------------------------------
\* a thread calls generateSeed: the clock sample and the thread identity
\* hash to any words; a second caller is another thread with another hash
GenerateSeed ==
    /\ Len(seedCall) < 2
    /\ \E clockHash \in SeedRange, threadHash \in SeedRange :
          /\ \A i \in 1 .. Len(seedCall) : seedCall[i].threadHash # threadHash
          /\ seedCall' = Append(seedCall,
                                [clockHash |-> clockHash, threadHash |-> threadHash,
                                 seed |-> generateSeed(clockHash, threadHash)])
    /\ UNCHANGED <<summaryFile, runs, loaded, sessions, scoring>>
    /\ UNCHANGED <<anchorVars, last, recorderVars, flowVars, aggregateVars,
                   percentileVars>>

\* ------------------------------------------------------------------------
\* EntropyTelemetry::toJson, and a client that releases with other arguments
\* ------------------------------------------------------------------------
\* scoreSum += record.stabilityScore over records_, in thousandths
RECURSIVE scoreSum(_)
scoreSum(recs) ==
    IF recs = <<>> THEN 0 ELSE recs[1].stabilityScore + scoreSum(Tail(recs))

\* toJson with the average taken over the released records only
toJson_releasedOnly(recs, be, dev) ==
    LET released == SelectSeq(recs, LAMBDA r : r.hasReleasedAt)
        averageScore == IF released = <<>> THEN Zero
                        ELSE Num(scoreSum(released), 1000 * Len(released))
    IN [backend |-> escapeJson(be),
        deviceName |-> escapeJson(dev),
        device_name |-> escapeJson(dev),
        stability_score |-> Token(fixed6(averageScore)),
        records |-> [i \in 1 .. Len(recs) |->
                        [context |-> escapeJson(recs[i].context),
                         seed |-> recs[i].seed,
                         backend |-> escapeJson(recs[i].backend),
                         deviceName |-> escapeJson(recs[i].deviceName),
                         device_name |-> escapeJson(recs[i].deviceName),
                         thread_id |-> escapeJson(recs[i].threadId),
                         stability_score |-> Token(Num(recs[i].stabilityScore, 1000))]]]

\* toJson: the members of the object it writes, each numeric member as the
\* token after its key.  The aggregate is written under std::fixed <<
\* std::setprecision(6); a record's score is written under defaultfloat with
\* the precision 3 left by duration_ms, which prints every multiple of a
\* thousandth between 0 and 1 exactly.  The members acquired_at, released_at
\* and duration_ms of a record are left out.
toJson(recs, be, dev) ==
    LET averageScore == IF recs = <<>> THEN Zero
                        ELSE Num(scoreSum(recs), 1000 * Len(recs))
    IN [backend |-> escapeJson(be),
        deviceName |-> escapeJson(dev),
        device_name |-> escapeJson(dev),
        stability_score |-> Token(fixed6(averageScore)),
        records |-> [i \in 1 .. Len(recs) |->
                        [context |-> escapeJson(recs[i].context),
                         seed |-> recs[i].seed,
                         backend |-> escapeJson(recs[i].backend),
                         deviceName |-> escapeJson(recs[i].deviceName),
                         device_name |-> escapeJson(recs[i].deviceName),
                         thread_id |-> escapeJson(recs[i].threadId),
                         stability_score |-> Token(Num(recs[i].stabilityScore, 1000))]]]

\* a.toJson(), the call of a client thread; the lock_guard spans the call
ToJson(t, rc) ==
    /\ pc[t] = "idle"
    /\ mutex[rc] = NoThread
    /\ last' = [op |-> "toJson", rc |-> rc, seen |-> records[rc],
                result |-> toJson(records[rc], backend[rc], deviceName[rc])]
    /\ UNCHANGED recorderVars
    /\ UNCHANGED anchorVars
    /\ UNCHANGED extVars

\* arguments of a client whose recordAcquire leaves the context empty, and
\* of one whose recordRelease passes a context, a seed and a score that
\* differ from those of every recordAcquire
SnapshotAcquireInputs == AcquireInputs \cup {<<"", 3>>}
SnapshotReleaseInputs == ReleaseInputs \cup {<<"y", 2, 500>>}

\* ------------------------------------------------------------------------
\* EntropyTelemetry: merge and setBackendMetadata statement by statement,
\* called by threads that share the recorders
\* ------------------------------------------------------------------------
\* const std::string& backend() const / deviceName() const return the member
\* without taking mutex_: what a caller reads through the reference.  While
\* another thread is inside a critical section that assigns the member the
\* read is a data race, and it yields the value, nothing, or a torn string.
unguardedRead(value, rc, t) ==
    IF \E u \in Threads \ {t} :
          /\ pc[u] \in {"acquire_body", "set_body"}
          /\ frame[u].rc = rc
    THEN {value, "", "torn"}
    ELSE {value}

\* the calls the threads make between them in a run: one each
ThreadCalls == Cardinality(Threads)

\* ~lock_guard() that leaves the mutex locked
lock_guard_release_keeps(mtx, rc) == mtx

\* ~lock_guard() at the end of the scope: mutex_.unlock()
lock_guard_release(mtx, rc) == [mtx EXCEPT ![rc] = NoThread]

\* a.merge(b) up to the condition: !other.backend().empty() ||
\* !other.deviceName().empty(); deviceName() is read only when backend() is
\* empty
MergeBegin(t, rc, other) ==
    /\ pc[t] = "idle"
    /\ nextCall <= ThreadCalls
    /\ \E be \in unguardedRead(backend[other], other, t),
          dev \in unguardedRead(deviceName[other], other, t) :
          pc' = [pc EXCEPT ![t] = IF be # "" \/ dev # "" THEN "merge_args"
                                  ELSE "copy_lock"]
    /\ frame' = [frame EXCEPT ![t] =
                    [op |-> "merge", rc |-> rc, other |-> other, call |-> nextCall,
                     be |-> "", dev |-> "", copy |-> <<>>]]
    /\ nextCall' = nextCall + 1
    /\ UNCHANGED last
    /\ UNCHANGED <<records, backend, deviceName, mutex, activeTelemetry, clock, issued>>
    /\ UNCHANGED anchorVars
    /\ UNCHANGED extVars

\* the arguments of setBackendMetadata(other.backend(), other.deviceName()):
\* both members are read again and copied into the by-value parameters
MergeArgs(t) ==
    /\ pc[t] = "merge_args"
    /\ \E be \in unguardedRead(backend[frame[t].other], frame[t].other, t),
          dev \in unguardedRead(deviceName[frame[t].other], frame[t].other, t) :
          frame' = [frame EXCEPT ![t].be = be, ![t].dev = dev]
    /\ pc' = [pc EXCEPT ![t] = "set_lock"]
    /\ UNCHANGED last
    /\ UNCHANGED <<records, backend, deviceName, mutex, activeTelemetry, clock,
                   nextCall, issued>>
    /\ UNCHANGED anchorVars
    /\ UNCHANGED extVars

\* a.setBackendMetadata(backend, deviceName) called by a thread, up to the
\* lock_guard
SetBackendMetadataBegin(t, rc, in) ==
    /\ pc[t] = "idle"
    /\ nextCall <= ThreadCalls
    /\ frame' = [frame EXCEPT ![t] =
                    [op |-> "setBackendMetadata", rc |-> rc, other |-> rc,
                     call |-> nextCall, be |-> in[1], dev |-> in[2], copy |-> <<>>]]
    /\ nextCall' = nextCall + 1
    /\ pc' = [pc EXCEPT ![t] = "set_lock"]
    /\ UNCHANGED last
    /\ UNCHANGED <<records, backend, deviceName, mutex, activeTelemetry, clock, issued>>
    /\ UNCHANGED anchorVars
    /\ UNCHANGED extVars

\* std::lock_guard<std::mutex> lock(mutex_) in setBackendMetadata and in
\* mergeRecords (on this recorder) and in other.records() (on the other one)
MergeLock(t) ==
    /\ pc[t] \in {"set_lock", "copy_lock", "insert_lock"}
    /\ LET rc == IF pc[t] = "copy_lock" THEN frame[t].other ELSE frame[t].rc
       IN  /\ mutex[rc] = NoThread
           /\ mutex' = [mutex EXCEPT ![rc] = t]
    /\ pc' = [pc EXCEPT ![t] = CASE pc[t] = "set_lock" -> "set_body"
                                 [] pc[t] = "copy_lock" -> "copy_body"
                                 [] pc[t] = "insert_lock" -> "insert_body"]
    /\ UNCHANGED last
    /\ UNCHANGED <<records, backend, deviceName, activeTelemetry, clock, frame,
                   nextCall, issued>>
    /\ UNCHANGED anchorVars
    /\ UNCHANGED extVars

\* the critical section of setBackendMetadata, up to the return that
\* unlocks; merge goes on to other.records()
SetBody(t) ==
    /\ pc[t] = "set_body"
    /\ LET rc == frame[t].rc
           own == setBackendMetadata(Recorder(rc), frame[t].be, frame[t].dev)
       IN  /\ mutex[rc] = t
           /\ records' = [records EXCEPT ![rc] = own.records]
           /\ backend' = [backend EXCEPT ![rc] = own.backend]
           /\ deviceName' = [deviceName EXCEPT ![rc] = own.deviceName]
           /\ mutex' = lock_guard_release(mutex, rc)
    /\ pc' = [pc EXCEPT ![t] = IF frame[t].op = "merge" THEN "copy_lock" ELSE "idle"]
    /\ frame' = [frame EXCEPT ![t] = IF frame[t].op = "merge" THEN @ ELSE IdleFrame]
    /\ UNCHANGED last
    /\ UNCHANGED <<activeTelemetry, clock, nextCall, issued>>
    /\ UNCHANGED anchorVars
    /\ UNCHANGED extVars

\* the critical section of other.records(): return records_; and then
\* mergeRecords up to its lock_guard: an empty copy returns at once
CopyBody(t) ==
    /\ pc[t] = "copy_body"
    /\ LET other == frame[t].other
           copy == records[other]
       IN  /\ mutex[other] = t
           /\ mutex' = lock_guard_release(mutex, other)
           /\ pc' = [pc EXCEPT ![t] = IF copy = <<>> THEN "idle" ELSE "insert_lock"]
           /\ frame' = [frame EXCEPT ![t] = IF copy = <<>> THEN IdleFrame
                                             ELSE [@ EXCEPT !.copy = copy]]
    /\ UNCHANGED last
    /\ UNCHANGED <<records, backend, deviceName, activeTelemetry, clock, nextCall, issued>>
    /\ UNCHANGED anchorVars
    /\ UNCHANGED extVars

\* the critical section of mergeRecords, up to the return that unlocks
InsertBody(t) ==
    /\ pc[t] = "insert_body"
    /\ LET rc == frame[t].rc
       IN  /\ mutex[rc] = t
           /\ records' = [records EXCEPT ![rc] = mergeRecords(@, frame[t].copy)]
           /\ mutex' = lock_guard_release(mutex, rc)
    /\ pc' = [pc EXCEPT ![t] = "idle"]
    /\ frame' = [frame EXCEPT ![t] = IdleFrame]
    /\ UNCHANGED last
    /\ UNCHANGED <<backend, deviceName, activeTelemetry, clock, nextCall, issued>>
    /\ UNCHANGED anchorVars
    /\ UNCHANGED extVars

\* ------------------------------------------------------------------------
\* Specifications
\* ------------------------------------------------------------------------
\* no anchor constructed, both recorders default-constructed, no call running
InitObjects ==
    /\ anchor = [a \in Anchors |-> FreshStatus]
    /\ alive = [a \in Anchors |-> FALSE]
    /\ legal = [a \in Anchors |-> FALSE]
    /\ nextAcq = 1
    /\ trace = <<>>
    /\ aborted = FALSE
    /\ last = [op |-> "init"]
    /\ records = [rc \in Recorders |-> <<>>]
    /\ backend = [rc \in Recorders |-> ""]
    /\ deviceName = [rc \in Recorders |-> ""]
    /\ mutex = [rc \in Recorders |-> NoThread]
    /\ activeTelemetry = NullRecorder
    /\ clock = 1
    /\ pc = [t \in Threads |-> "idle"]
    /\ frame = [t \in Threads |-> IdleFrame]
    /\ nextCall = 1
    /\ issued = [rc \in Recorders |-> <<>>]
    /\ telemetry = [a \in Anchors |-> NullRecorder]
    /\ activeTelemetryRecord = [a \in Anchors |-> NoRecord]
    /\ served = [rc \in Recorders |-> [locks |-> 0, releases |-> 0]]

\* no aggregate call and no computePercentile call under way
IdleAggregate ==
    /\ hasNlohmann = TRUE
    /\ telemetryDir = [exists |-> FALSE, entries |-> <<>>]
    /\ stats = InitStats
    /\ folded = <<>>
    /\ aggregateFrame = InitFrame
    /\ summary = DefaultSummary
IdleCall == [values |-> <<>>, percentile |-> Zero, done |-> FALSE, result |-> Zero]
IdlePercentile == percentileCall = IdleCall

\* no summary written or loaded, no scoring call, no second seed
IdleTools ==
    /\ summaryFile = <<>>
    /\ runs = [written |-> FALSE, count |-> 1, first |-> NoRun]
    /\ loaded = DefaultSummary
    /\ sessions = [done |-> FALSE, list |-> <<>>]
    /\ scoring = NoScoring
    /\ seedCall = <<>>

\* the anchor library is built with or without NDEBUG
InitAnchor ==
    InitObjects /\ IdleAggregate /\ IdlePercentile /\ IdleTools /\ ndebug \in BOOLEAN

\* the recorder has no assert(), the build flavour is immaterial
InitRecorder ==
    InitObjects /\ IdleAggregate /\ IdlePercentile /\ IdleTools /\ ndebug = FALSE

NextAnchor ==
    \/ \E a \in Anchors : Construct(a)
    \/ \E a \in Anchors, ctx \in Contexts, seed \in GeneratedSeeds :
          ConstructCtx(a, ctx, seed)
    \/ \E a \in Anchors : Destroy(a)
    \/ \E a \in Anchors, b \in Anchors : MoveConstruct(a, b)
    \/ \E a \in Anchors, b \in Anchors : MoveAssign(a, b)
    \/ \E a \in Anchors, ctx \in Contexts, seed \in GeneratedSeeds :
          Lock(a, ctx, seed)
    \/ \E a \in Anchors : Release(a)

SpecAnchor == InitAnchor /\ [][NextAnchor]_vars

\* the runs of SpecAnchor in which generateSeed never returns zero
ConstructCtxNonZero(a, ctx, seed) ==
    /\ seed # 0
    /\ ConstructCtx(a, ctx, seed)

LockNonZero(a, ctx, seed) ==
    /\ seed # 0
    /\ Lock(a, ctx, seed)

NextAnchorNonZero ==
    \/ \E a \in Anchors : Construct(a)
    \/ \E a \in Anchors, ctx \in Contexts, seed \in GeneratedSeeds :
          ConstructCtxNonZero(a, ctx, seed)
    \/ \E a \in Anchors : Destroy(a)
    \/ \E a \in Anchors, b \in Anchors : MoveConstruct(a, b)
    \/ \E a \in Anchors, b \in Anchors : MoveAssign(a, b)
    \/ \E a \in Anchors, ctx \in Contexts, seed \in GeneratedSeeds :
          LockNonZero(a, ctx, seed)
    \/ \E a \in Anchors : Release(a)

SpecAnchorNonZero == InitAnchor /\ [][NextAnchorNonZero]_vars

NextRecorder ==
    \/ \E t \in Threads, rc \in SharedRecorders, in \in AcquireInputs : AcquireBegin(t, rc, in)
    \/ \E t \in Threads : AcquireLock(t)
    \/ \E t \in Threads : AcquireBody(t)
    \/ \E t \in Threads, rc \in SharedRecorders, id \in Handles, in \in ReleaseInputs :
          ReleaseBegin(t, rc, id, in)
    \/ \E t \in Threads : ReleaseLock(t)
    \/ \E t \in Threads : ReleaseBody(t)
    \/ Tick

SpecRecorder == InitRecorder /\ [][NextRecorder]_vars

\* one client thread calling every operation of two recorders, call by call
NextTelemetry ==
    \/ \E t \in ClientThreads, rc \in Recorders, in \in AcquireInputs :
          AcquireBegin(t, rc, in)
    \/ \E t \in ClientThreads : AcquireLock(t)
    \/ \E t \in ClientThreads : AcquireBody(t)
    \/ \E t \in ClientThreads, rc \in Recorders, id \in Handles, in \in ReleaseInputs :
          ReleaseBegin(t, rc, id, in)
    \/ \E t \in ClientThreads : ReleaseLock(t)
    \/ \E t \in ClientThreads : ReleaseBody(t)
    \/ \E t \in ClientThreads, rc \in Recorders, ext \in ExternalBatches :
          MergeRecords(t, rc, ext)
    \/ \E t \in ClientThreads, rc \in Recorders, other \in Recorders : Merge(t, rc, other)
    \/ \E t \in ClientThreads, rc \in Recorders, ref \in Refs :
          AlignToReference(t, rc, ref)
    \/ \E t \in ClientThreads, rc \in Recorders, in \in BackendInputs :
          SetBackendMetadata(t, rc, in)
    \/ Tick

SpecTelemetry == InitRecorder /\ [][NextTelemetry]_vars

\* anchors that attach a recorder and then lock and release, with the
\* contexts and seeds of AcquireInputs
NextFlow ==
    \/ \E a \in Anchors : Construct(a)
    \/ \E a \in Anchors, rc \in Recorders : AttachTelemetry(a, rc)
    \/ \E a \in Anchors, in \in AcquireInputs : FlowLock(a, in[1], in[2])
    \/ \E a \in Anchors : FlowRelease(a)

\* the tests that attach a recorder run in a build with assertions
SpecFlow == InitRecorder /\ [][NextFlow]_vars

\* aggregate called on a missing path or on a directory with one of the
\* listings, in a build with or without <nlohmann/json.hpp>
InitAggregate ==
    /\ InitObjects
    /\ ndebug = FALSE
    /\ IdlePercentile
    /\ IdleTools
    /\ hasNlohmann \in BOOLEAN
    /\ telemetryDir \in
         {[exists |-> FALSE, entries |-> <<>>]}
         \cup {[exists |-> TRUE, entries |-> l] : l \in Listings}
    /\ stats = InitStats
    /\ folded = <<>>
    /\ aggregateFrame = InitFrame
    /\ summary = DefaultSummary

NextAggregate ==
    \/ AggregateMissing
    \/ AggregateEntry
    \/ AggregateReturn

SpecAggregate == InitAggregate /\ [][NextAggregate]_vars

\* a RunningStats that the scores of ScoreValues arrive at, in every order
NextWelford == \E value \in ScoreValues : AddScore(value)

SpecWelford == InitRecorder /\ [][NextWelford]_vars

\* computePercentile called once on every list of DurationLists and every
\* percentile of Percentiles
InitPercentile ==
    /\ InitObjects
    /\ ndebug = FALSE
    /\ IdleAggregate
    /\ IdleTools
    /\ percentileCall \in
         {[values |-> v, percentile |-> p, done |-> FALSE, result |-> Zero] :
            v \in DurationLists, p \in Percentiles}

NextPercentile == ComputePercentile

SpecPercentile == InitPercentile /\ [][NextPercentile]_vars

\* accumulate run twice on a workspace: aggregate, writeSummary, and again;
\* between the runs the directory is left alone or loses its corrupt files
NextAccumulate ==
    \/ AggregateMissing
    \/ AggregateEntry
    \/ AggregateReturn
    \/ WriteSummary
    \/ RemoveCorrupt
    \/ Rerun

SpecAccumulate == InitAggregate /\ [][NextAccumulate]_vars

\* writeSummary called once on every Summary of SummaryValues
InitSummary ==
    /\ InitObjects
    /\ ndebug = FALSE
    /\ IdlePercentile
    /\ IdleTools
    /\ hasNlohmann = TRUE
    /\ telemetryDir = [exists |-> FALSE, entries |-> <<>>]
    /\ stats = InitStats
    /\ folded = <<>>
    /\ aggregateFrame = InitFrame
    /\ summary \in SummaryValues

NextSummary == WriteSummary

SpecSummary == InitSummary /\ [][NextSummary]_vars

\* loadSummary called once on every file of SummaryFiles
InitLoad ==
    /\ InitObjects
    /\ ndebug = FALSE
    /\ IdleAggregate
    /\ IdlePercentile
    /\ summaryFile \in SummaryFiles
    /\ runs = [written |-> FALSE, count |-> 1, first |-> NoRun]
    /\ loaded = DefaultSummary
    /\ sessions = [done |-> FALSE, list |-> <<>>]
    /\ scoring = NoScoring
    /\ seedCall = <<>>

NextLoad == LoadSummary

SpecLoad == InitLoad /\ [][NextLoad]_vars

\* aggregate and then loadSessions on a directory with one of the named
\* listings, in a build with or without <nlohmann/json.hpp>
InitSessions ==
    /\ InitObjects
    /\ ndebug = FALSE
    /\ IdlePercentile
    /\ IdleTools
    /\ hasNlohmann \in BOOLEAN
    /\ \/ telemetryDir = [exists |-> FALSE, entries |-> <<>>]
       \/ \E k \in 0 .. MaxFiles : \E l \in NamedListings(k) :
             telemetryDir = [exists |-> TRUE, entries |-> l]
    /\ stats = InitStats
    /\ folded = <<>>
    /\ aggregateFrame = InitFrame
    /\ summary = DefaultSummary

NextSessions ==
    \/ AggregateMissing
    \/ AggregateEntry
    \/ AggregateReturn
    \/ LoadSessions

SpecSessions == InitSessions /\ [][NextSessions]_vars

\* one call of evaluate or evaluateAggregated on every batch and every
\* list of groups
NextScoring ==
    \/ Evaluate
    \/ EvaluateAggregated

SpecScoring == InitRecorder /\ [][NextScoring]_vars

\* two threads call generateSeed
NextSeed == GenerateSeed

SpecSeed == InitRecorder /\ [][NextSeed]_vars

\* one client thread on one recorder: recordAcquire, recordRelease with the
\* arguments of the acquire or with others, mergeRecords and toJson
NextSnapshot ==
    \/ \E t \in ClientThreads, rc \in SharedRecorders, in \in SnapshotAcquireInputs :
          AcquireBegin(t, rc, in)
    \/ \E t \in ClientThreads : AcquireLock(t)
    \/ \E t \in ClientThreads : AcquireBody(t)
    \/ \E t \in ClientThreads, rc \in SharedRecorders, id \in Handles,
          in \in SnapshotReleaseInputs :
          ReleaseBegin(t, rc, id, in)
    \/ \E t \in ClientThreads : ReleaseLock(t)
    \/ \E t \in ClientThreads : ReleaseBody(t)
    \/ \E t \in ClientThreads, rc \in SharedRecorders, ext \in ExternalBatches :
          MergeRecords(t, rc, ext)
    \/ \E t \in ClientThreads, rc \in SharedRecorders : ToJson(t, rc)

SpecSnapshot == InitRecorder /\ [][NextSnapshot]_vars

\* a recorder as it is constructed, or as a recordAcquire("x", 1) of an
\* earlier thread has left it
RecorderStates ==
    {[records |-> <<>>, backend |-> "", deviceName |-> ""],
     [records |-> << [NewRecord("x", 1, "t0", 1, 0)
                         EXCEPT !.backend = "CPU", !.deviceName = "host"] >>,
      backend |-> "CPU", deviceName |-> "host"]}

\* two recorders, each fresh or holding a record, and no call running
InitMerge ==
    /\ anchor = [a \in Anchors |-> FreshStatus]
    /\ alive = [a \in Anchors |-> FALSE]
    /\ legal = [a \in Anchors |-> FALSE]
    /\ nextAcq = 1
    /\ trace = <<>>
    /\ aborted = FALSE
    /\ ndebug = FALSE
    /\ last = [op |-> "init"]
    /\ \E own \in [Recorders -> RecorderStates] :
          /\ records = [rc \in Recorders |-> own[rc].records]
          /\ backend = [rc \in Recorders |-> own[rc].backend]
          /\ deviceName = [rc \in Recorders |-> own[rc].deviceName]
          /\ issued = [rc \in Recorders |->
                          IF own[rc].records = <<>> THEN <<>>
                          ELSE << [call |-> 0, handle |-> 0, thread |-> "t0"] >>]
          /\ activeTelemetry \in
                 IF \A rc \in Recorders : own[rc].records = <<>>
                 THEN {NullRecorder}
                 ELSE {rc \in Recorders : own[rc].records # <<>>}
    /\ mutex = [rc \in Recorders |-> NoThread]
    /\ clock = 1
    /\ pc = [t \in Threads |-> "idle"]
    /\ frame = [t \in Threads |-> IdleFrame]
    /\ nextCall = 1
    /\ telemetry = [a \in Anchors |-> NullRecorder]
    /\ activeTelemetryRecord = [a \in Anchors |-> NoRecord]
    /\ served = [rc \in Recorders |-> [locks |-> 0, releases |-> 0]]
    /\ IdleAggregate
    /\ IdlePercentile
    /\ IdleTools

\* recordAcquire as one of the calls the threads make between them
SharedAcquireBegin(t, rc, in) ==
    /\ nextCall <= ThreadCalls
    /\ AcquireBegin(t, rc, in)

\* two threads on two recorders: recordAcquire, setBackendMetadata and
\* merge (a.merge(a) included), statement by statement
NextMerge ==
    \/ \E t \in Threads, rc \in SharedRecorders, in \in AcquireInputs :
          SharedAcquireBegin(t, rc, in)
    \/ \E t \in Threads : AcquireLock(t)
    \/ \E t \in Threads : AcquireBody(t)
    \/ \E t \in Threads, rc \in Recorders, in \in BackendInputs :
          SetBackendMetadataBegin(t, rc, in)
    \/ \E t \in Threads, rc \in Recorders, other \in Recorders : MergeBegin(t, rc, other)
    \/ \E t \in Threads : MergeArgs(t)
    \/ \E t \in Threads : MergeLock(t)
    \/ \E t \in Threads : SetBody(t)
    \/ \E t \in Threads : CopyBody(t)
    \/ \E t \in Threads : InsertBody(t)

SpecMerge == InitMerge /\ [][NextMerge]_vars

\* a call under way goes on: a thread that can take its next step is
\* scheduled, and a mutex that stays free is handed to a thread waiting for
\* it; nothing makes a thread start a call
ThreadStep(t) ==
    \/ AcquireLock(t)
    \/ AcquireBody(t)
    \/ MergeArgs(t)
    \/ MergeLock(t)
    \/ SetBody(t)
    \/ CopyBody(t)
    \/ InsertBody(t)

SpecMergeFair == SpecMerge /\ \A t \in Threads : WF_vars(ThreadStep(t))

\* aggregate called on a directory with one of the labelled listings
InitOrder ==
    /\ InitObjects
    /\ ndebug = FALSE
    /\ IdlePercentile
    /\ IdleTools
    /\ hasNlohmann \in BOOLEAN
    /\ \E k \in 0 .. MaxFiles :
          \E l \in LabelledListings(k) :
              telemetryDir = [exists |-> TRUE, entries |-> l]
    /\ stats = InitStats
    /\ folded = <<>>
    /\ aggregateFrame = InitFrame
    /\ summary = DefaultSummary

NextOrder ==
    \/ AggregateEntry
    \/ AggregateReturn

SpecOrder == InitOrder /\ [][NextOrder]_vars

\* accumulate on a directory with one of the round-trip listings, and then
\* loadSummary on the summary file it wrote
InitRoundTrip ==
    /\ InitObjects
    /\ ndebug = FALSE
    /\ IdlePercentile
    /\ IdleTools
    /\ hasNlohmann \in BOOLEAN
    /\ \E k \in 0 .. MaxFiles :
          \E l \in RoundTripListings(k) :
              telemetryDir = [exists |-> TRUE, entries |-> l]
    /\ stats = InitStats
    /\ folded = <<>>
    /\ aggregateFrame = InitFrame
    /\ summary = DefaultSummary

LoadWritten == runs.written /\ LoadSummary

NextRoundTrip ==
    \/ AggregateEntry
    \/ AggregateReturn
    \/ WriteSummary
    \/ LoadWritten

SpecRoundTrip == InitRoundTrip /\ [][NextRoundTrip]_vars

\* ------------------------------------------------------------------------
\* Properties of ClampAnchor (SpecAnchor)
\* ------------------------------------------------------------------------
\* status(): the AnchorStatus fields, without the history field
StatusOf(st) == [state |-> st.state, context |-> st.context, entropySeed |-> st.entropySeed]

MoveOps == {"moveConstruct", "moveAssign"}
IsMove == last.op \in MoveOps /\ last.self # last.other

\* C1: a lock on a Locked anchor moves it to Error, and a lock or release
\* called on an anchor that is in Error leaves it in Error, its status
\* untouched.
C1_DoubleLock ==
    /\ (last.op = "lock" /\ last.pre.state = "Locked")
          => anchor[last.self].state = "Error"
    /\ (last.op \in {"lock", "release"} /\ last.pre.state = "Error")
          => anchor[last.self] = last.pre

\* a lock was rejected on an anchor that a double-lock had put in Error
C1_Witness ==
    /\ last.op = "lock"
    /\ last.pre.state = "Error"
    /\ last.pre.acq # 0
    /\ anchor[last.self].state = "Error"
    /\ ~aborted

C3_Original ==
    last.op \in {"lock", "release", "moveConstruct", "moveAssign"} =>
        /\ (last.op # "moveConstruct" /\ last.pre.state = "Error")
              => anchor[last.self].state = "Error"
        /\ last.preOther.state = "Error" => anchor[last.other].state = "Error"

\* C3 amended: lock and release leave an anchor in Error unchanged; a move
\* does not: the Error status travels to the destination, the source of the
\* move is reset to a fresh Unlocked status, and the destination of a
\* move-assignment takes the status of the source whatever it held.
C3_ErrorUnderMoves ==
    /\ (last.op \in {"lock", "release"} /\ last.pre.state = "Error")
          => anchor[last.self].state = "Error"
    /\ (IsMove /\ last.preOther.state = "Error") =>
          /\ anchor[last.self].state = "Error"
          /\ anchor[last.other].state = "Unlocked"
    /\ (IsMove /\ last.op = "moveAssign" /\ last.pre.state = "Error")
          => anchor[last.self].state = last.preOther.state

\* move-assignment made an anchor that was in Error Locked again
C3_Witness ==
    /\ IsMove
    /\ last.op = "moveAssign"
    /\ last.pre.state = "Error"
    /\ anchor[last.self].state = "Locked"

\* C4: release on an anchor that is not Locked puts it in Error and reaches
\* the assert, which ends a build that has assertions.
C4_InvalidRelease ==
    (last.op = "release" /\ last.pre.state # "Locked") =>
        /\ anchor[last.self].state = "Error"
        /\ aborted = ~ndebug

\* release was called on a fresh Unlocked anchor
C4_Witness ==
    /\ last.op = "release"
    /\ last.pre = FreshStatus
    /\ anchor[last.self].state = "Error"

\* C5: after a move between two distinct anchors the destination reports
\* the status the source had and the source reports a fresh status.
C5_MoveTransfers ==
    IsMove =>
        /\ StatusOf(anchor[last.self]) = StatusOf(last.preOther)
        /\ StatusOf(anchor[last.other]) =
              [state |-> "Unlocked", context |-> "", entropySeed |-> 0]

\* a Locked destination was move-assigned from a source in Error that still
\* carried a context and a seed
C5_Witness ==
    /\ IsMove
    /\ last.op = "moveAssign"
    /\ last.pre.state = "Locked"
    /\ last.preOther.state = "Error"
    /\ last.preOther.context # ""
    /\ last.preOther.entropySeed # 0
    /\ anchor[last.self].state = "Error"

\* C6: no two live anchors hold the seed of the same acquisition, and the
\* source of a move keeps neither seed nor context.
C6_ExclusiveSeed ==
    /\ \A a \in Anchors, b \in Anchors :
          (a # b /\ alive[a] /\ alive[b] /\ anchor[a].acq # 0)
             => anchor[a].acq # anchor[b].acq
    /\ IsMove =>
          /\ anchor[last.other].entropySeed = 0
          /\ anchor[last.other].context = ""
          /\ anchor[last.other].acq = 0

\* a Locked anchor with a non-zero seed was moved into a live anchor that
\* was Locked on another acquisition
C6_Witness ==
    /\ IsMove
    /\ last.op = "moveAssign"
    /\ last.pre.state = "Locked"
    /\ last.preOther.state = "Locked"
    /\ last.preOther.entropySeed # 0
    /\ anchor[last.self].state = "Locked"
    /\ anchor[last.self].acq = last.preOther.acq
    /\ alive[last.other]

\* C7 as stated: in every reachable state of a live anchor entropySeed is
\* non-zero if and only if the state is Locked.
C7_SeedIffLocked ==
    \A a \in Anchors : alive[a] =>
        ((anchor[a].entropySeed # 0) <=> (anchor[a].state = "Locked"))

\* C8: the release_internal run by the destructor and by move-assignment
\* never ends in Error unless it started there, reaches no assert, resets a
\* Locked anchor to Unlocked with zero seed and empty context, and changes
\* nothing otherwise.
C8_Teardown ==
    (last.op = "destroy" \/ (last.op = "moveAssign" /\ last.self # last.other)) =>
        /\ last.pre.state = "Locked"
              => StatusOf(last.mid) = [state |-> "Unlocked", context |-> "", entropySeed |-> 0]
        /\ last.pre.state # "Locked" => last.mid = last.pre
        /\ last.mid.state = "Error" => last.pre.state = "Error"
        /\ last.op = "destroy" => anchor[last.self] = last.mid
        /\ ~aborted

\* a Locked anchor was destroyed
C8_Witness ==
    /\ last.op = "destroy"
    /\ last.pre.state = "Locked"
    /\ last.pre.entropySeed # 0
    /\ anchor[last.self].state = "Unlocked"
    /\ trace = <<[from |-> "Locked", to |-> "Released"],
                 [from |-> "Released", to |-> "Unlocked"]>>

\* ------------------------------------------------------------------------
\* Properties of EntropyTelemetry (SpecRecorder)
\* ------------------------------------------------------------------------
\* C9: the recordAcquire calls on one recorder return, in the order in which
\* they took the mutex, the handles 0, 1, 2, ...; the record at each handle
\* is the one built by that call, and the recorder holds one record per call.
C9_AcquireOrder ==
    \A rc \in Recorders :
        /\ Len(records[rc]) = Len(issued[rc])
        /\ \A i \in 1 .. Len(issued[rc]) :
              /\ issued[rc][i].handle = i - 1
              /\ issued[rc][i].handle < Len(records[rc])
              /\ records[rc][issued[rc][i].handle + 1].call = issued[rc][i].call
              /\ records[rc][issued[rc][i].handle + 1].threadId = issued[rc][i].thread
        /\ \A i \in 1 .. Len(issued[rc]), j \in 1 .. Len(issued[rc]) :
              i # j => issued[rc][i].handle # issued[rc][j].handle

\* two threads raced: the call that started second took the mutex first
C9_Witness ==
    \E rc \in Recorders :
        /\ Len(issued[rc]) = 2
        /\ issued[rc][1].call > issued[rc][2].call
        /\ issued[rc][1].thread # issued[rc][2].thread

\* C10: the critical section of recordRelease entered with a handle that is
\* not below records_.size() changes no record, no count and no metadata,
\* and raises nothing.
C10_StaleRelease ==
    [][\A t \in Threads :
          (/\ pc[t] = "release_body"
           /\ pc'[t] = "idle"
           /\ frame[t].recordId >= Len(records[frame[t].rc]))
          => /\ records' = records
             /\ issued' = issued
             /\ backend' = backend
             /\ deviceName' = deviceName
             /\ aborted' = aborted]_vars

\* a stale handle was released on a recorder that holds records
C10_Witness ==
    /\ last.op = "recordRelease"
    /\ last.stale
    /\ Len(records[last.rc]) >= 1

\* ------------------------------------------------------------------------
\* Properties of EntropyTelemetry under every operation (SpecTelemetry)
\* ------------------------------------------------------------------------
\* C11: no step of recordAcquire, recordRelease, merge, mergeRecords,
\* alignToReference or setBackendMetadata shortens a record list or puts
\* another record at an index already taken (the creating call and thread of
\* the record at each index stay), and every recordAcquire returns a handle
\* above all handles its recorder returned before, indexing its own record.
C11_AppendOnly ==
    [][\A rc \in Recorders :
          /\ Len(records'[rc]) >= Len(records[rc])
          /\ \A i \in 1 .. Len(records[rc]) :
                /\ records'[rc][i].call = records[rc][i].call
                /\ records'[rc][i].threadId = records[rc][i].threadId
          /\ issued'[rc] # issued[rc] =>
                LET new == issued'[rc][Len(issued'[rc])]
                IN  /\ \A i \in 1 .. Len(issued[rc]) : issued[rc][i].handle < new.handle
                    /\ new.handle >= Len(records[rc])
                    /\ new.handle < Len(records'[rc])
                    /\ records'[rc][new.handle + 1].call = new.call]_vars

\* a recorder issued a handle, took a merged batch, and issued the next
\* handle beyond the batch while the first record kept its index
C11_Witness ==
    \E rc \in Recorders :
        /\ Len(issued[rc]) = 2
        /\ issued[rc][2].handle > issued[rc][1].handle + 1
        /\ records[rc][issued[rc][1].handle + 1].call = issued[rc][1].call
        /\ records[rc][issued[rc][2].handle + 1].call = issued[rc][2].call

\* C12 as stated: once a record has a releasedAt, no step of any recorder
\* operation, a second recordRelease with the same handle included, changes
\* its releasedAt, durationMs or stabilityScore.
C12_ReleasedImmutable ==
    [][\A rc \in Recorders : \A i \in 1 .. Len(records[rc]) :
          records[rc][i].hasReleasedAt =>
              /\ records'[rc][i].hasReleasedAt
              /\ records'[rc][i].releasedAt = records[rc][i].releasedAt
              /\ records'[rc][i].durationMs = records[rc][i].durationMs
              /\ records'[rc][i].stabilityScore = records[rc][i].stabilityScore]_vars

\* C13 as stated: every record created by recordAcquire on a recorder and
\* completed by recordRelease has durationMs >= 0, whatever operations ran
\* on the recorder between the two calls.
C13_NonNegativeDuration ==
    \A rc \in Recorders : \A i \in 1 .. Len(issued[rc]) :
        LET record == records[rc][issued[rc][i].handle + 1]
        IN  record.hasReleasedAt => record.durationMs >= 0

\* C14 as stated: after a.merge(b), a # b, the records of a are its previous
\* records followed by the records of b, and b is unchanged; after
\* a.mergeRecords(batch) they are the previous records followed by the batch.
C14_Original ==
    /\ (last.op = "merge" /\ last.rc # last.other) =>
          /\ records[last.rc] = last.before.records \o last.otherBefore.records
          /\ Recorder(last.other) = last.otherBefore
    /\ last.op = "mergeRecords" =>
          records[last.rc] = last.before \o last.batch

\* C14 amended: after a.merge(b), a # b, the records of a are its previous
\* records followed by the records of b, the latter verbatim, in order and
\* without deduplication, and b is unchanged; when b carries a non-empty
\* backend or device name, a adopts the non-empty ones and the backend and
\* deviceName of every previous record of a are rewritten to a's metadata,
\* the other fields staying.  mergeRecords appends the batch verbatim.
C14_MergeAppends ==
    /\ (last.op = "merge" /\ last.rc # last.other) =>
          LET a == last.before
              b == last.otherBefore
              adopt == b.backend # "" \/ b.deviceName # ""
              n == Len(a.records)
          IN  /\ Len(records[last.rc]) = n + Len(b.records)
              /\ \A j \in 1 .. Len(b.records) : records[last.rc][n + j] = b.records[j]
              /\ Recorder(last.other) = b
              /\ backend[last.rc] = IF b.backend # "" THEN b.backend ELSE a.backend
              /\ deviceName[last.rc] =
                    IF b.deviceName # "" THEN b.deviceName ELSE a.deviceName
              /\ \A i \in 1 .. n :
                    records[last.rc][i] =
                        IF adopt
                        THEN [a.records[i] EXCEPT !.backend = backend[last.rc],
                                                  !.deviceName = deviceName[last.rc]]
                        ELSE a.records[i]
    /\ last.op = "mergeRecords" =>
          /\ Len(records[last.rc]) = Len(last.before) + Len(last.batch)
          /\ \A i \in 1 .. Len(last.before) : records[last.rc][i] = last.before[i]
          /\ \A j \in 1 .. Len(last.batch) :
                records[last.rc][Len(last.before) + j] = last.batch[j]

\* a recorder holding untagged records merged a peer that holds a record and
\* a backend: the peer's record was appended and the old records re-tagged
C14_Witness ==
    /\ last.op = "merge"
    /\ last.rc # last.other
    /\ Len(last.before.records) >= 1
    /\ Len(last.otherBefore.records) >= 1
    /\ records[last.rc][1].backend # last.before.records[1].backend
    /\ records[last.rc][Len(records[last.rc])] =
          last.otherBefore.records[Len(last.otherBefore.records)]

\* C15 as stated: after alignToReference(ref) on a recorder holding a record
\* with non-zero acquiredAt, the earliest non-zero acquiredAt equals ref and
\* every record's acquiredAt and (if present) releasedAt moved by
\* delta = ref - earliest, so that releasedAt - acquiredAt is as before.
C15_Original ==
    (last.op = "alignToReference" /\ Acquired(last.before) # {}) =>
        LET old == last.before
            new == records[last.rc]
            delta == last.ref - minTime(old)
        IN  /\ Acquired(new) # {}
            /\ minTime(new) = last.ref
            /\ \A i \in 1 .. Len(old) :
                  /\ new[i].acquiredAt = old[i].acquiredAt + delta
                  /\ old[i].hasReleasedAt =>
                        /\ new[i].releasedAt = old[i].releasedAt + delta
                        /\ new[i].releasedAt - new[i].acquiredAt =
                              old[i].releasedAt - old[i].acquiredAt

\* C15 amended: after alignToReference(ref) on a recorder holding a record
\* with non-zero acquiredAt, with delta = ref - earliest non-zero acquiredAt:
\* every record with a non-zero acquiredAt has acquiredAt and (if present)
\* releasedAt moved by delta, so its releasedAt - acquiredAt is as before,
\* and the earliest of them lands on ref, which for a non-zero ref is then
\* the earliest non-zero acquiredAt; a record whose acquiredAt is zero keeps
\* it, while its releasedAt, if present, is moved by delta all the same; no
\* other field and no record count changes.
C15_AlignShifts ==
    (last.op = "alignToReference" /\ Acquired(last.before) # {}) =>
        LET old == last.before
            new == records[last.rc]
            delta == last.ref - minTime(old)
        IN  /\ Len(new) = Len(old)
            /\ \A i \in 1 .. Len(old) :
                  /\ old[i].acquiredAt # 0 =>
                        /\ new[i].acquiredAt = old[i].acquiredAt + delta
                        /\ new[i].acquiredAt >= last.ref
                        /\ old[i].hasReleasedAt =>
                              new[i].releasedAt - new[i].acquiredAt =
                                  old[i].releasedAt - old[i].acquiredAt
                  /\ old[i].acquiredAt = 0 => new[i].acquiredAt = 0
                  /\ old[i].hasReleasedAt =>
                        new[i].releasedAt = old[i].releasedAt + delta
                  /\ new[i] = [old[i] EXCEPT !.acquiredAt = new[i].acquiredAt,
                                             !.releasedAt = new[i].releasedAt]
            /\ \E i \in 1 .. Len(old) :
                  old[i].acquiredAt = minTime(old) /\ new[i].acquiredAt = last.ref
            /\ last.ref # 0 => (Acquired(new) # {} /\ minTime(new) = last.ref)

\* a non-zero reference moved a recorder that held a released record with
\* zero acquiredAt next to a released record with non-zero acquiredAt
C15_Witness ==
    /\ last.op = "alignToReference"
    /\ last.ref # 0
    /\ Acquired(last.before) # {}
    /\ last.ref # minTime(last.before)
    /\ \E i \in 1 .. Len(last.before) :
          /\ last.before[i].acquiredAt = 0
          /\ last.before[i].hasReleasedAt
          /\ records[last.rc][i].releasedAt # last.before[i].releasedAt
    /\ \E i \in 1 .. Len(last.before) :
          /\ last.before[i].acquiredAt # 0
          /\ last.before[i].hasReleasedAt
          /\ records[last.rc][i].acquiredAt # last.before[i].acquiredAt

\* C16 as stated: a second alignToReference on the same recorder, with the
\* same reference and no operation in between, shifts the timestamps again
\* whenever the first call shifted them.
C16_Original ==
    (/\ last.op = "alignToReference"
     /\ last.again
     /\ last.first # last.before)
        => records[last.rc] # last.before

\* C16 amended: for a reference other than the zero time point, a second
\* alignToReference on the same recorder, with the same reference and no
\* operation in between, changes no record: the first call left the
\* earliest non-zero acquiredAt on the reference, so the second delta is 0.
C16_AlignIdempotent ==
    (/\ last.op = "alignToReference"
     /\ last.again
     /\ last.ref # 0)
        => records[last.rc] = last.before

\* the first call moved the records of a recorder onto a non-zero reference
\* and the call was repeated at once
C16_Witness ==
    /\ last.op = "alignToReference"
    /\ last.again
    /\ last.ref # 0
    /\ last.first # last.before
    /\ Acquired(last.before) # {}
    /\ minTime(last.before) = last.ref
    /\ records[last.rc] = last.before

RECURSIVE usableEntries(_)
usableEntries(entries) ==
    IF entries = <<>> THEN 0
    ELSE (IF /\ Head(entries).stability_score.kind = "number"
             /\ isfinite(Head(entries).stability_score.v)
          THEN 1 ELSE 0) + usableEntries(Tail(entries))

\* what a directory entry contributes: the usable records of a regular
\* .json file that holds a JSON document, nothing otherwise
usableRecords(entry) ==
    IF /\ entry.regular
       /\ entry.extension = ".json"
       /\ entry.document.json.valid
       /\ entry.document.json.hasRecords
    THEN usableEntries(entry.document.json.entries)
    ELSE 0

RECURSIVE usableInListing(_)
usableInListing(entries) ==
    IF entries = <<>> THEN 0
    ELSE usableRecords(Head(entries)) + usableInListing(Tail(entries))

\* C18: when aggregate has returned, its sessionCount is the number of
\* records, over the regular .json files of the directory, that carry a
\* numeric finite stability score; unparseable files, records with a
\* non-numeric score and files that are not .json files count zero.
C18_SessionCount ==
    summary.done => summary.sessionCount = usableInListing(telemetryDir.entries)

\* the sum of a list of doubles
RECURSIVE SumOf(_)
SumOf(list) == IF list = <<>> THEN Zero ELSE DAdd(Head(list), SumOf(Tail(list)))

\* the arithmetic mean of a non-empty list
MeanOf(list) == DDiv(SumOf(list), Len(list))

\* the sum of the squared deviations from mean
RECURSIVE SumSq(_, _)
SumSq(list, mean) ==
    IF list = <<>> THEN Zero
    ELSE DAdd(DMul(DSub(Head(list), mean), DSub(Head(list), mean)),
              SumSq(Tail(list), mean))

\* the Bessel-corrected sample variance, 0 below two values
SampleVariance(list) ==
    IF Len(list) < 2 THEN Zero
    ELSE DDiv(SumSq(list, MeanOf(list)), Len(list) - 1)

\* C19: after any sequence of finite scores has been folded, in whatever
\* order, count is their number, mean is their arithmetic mean and
\* variance() is their sample variance with divisor n-1, which is 0 when
\* fewer than two scores were seen; non-finite scores leave no trace.
C19_Welford ==
    /\ stats.count = Len(folded)
    /\ (folded # <<>> => stats.mean = MeanOf(folded))
    /\ variance(stats) = SampleVariance(folded)

\* three scores folded out of order with a non-zero variance:
\* mean 7/10 and variance 1/25
C19_Witness ==
    /\ folded = <<Num(9, 10), Num(1, 2), Num(7, 10)>>
    /\ stats.mean = Num(7, 10)
    /\ variance(stats) = Num(1, 25)

\* list with value put in before the first larger element
RECURSIVE insertAscending(_, _)
insertAscending(list, value) ==
    IF list = <<>> THEN <<value>>
    ELSE IF DLess(value, Head(list)) THEN <<value>> \o list
    ELSE <<Head(list)>> \o insertAscending(Tail(list), value)

\* the ascending sort of a list
RECURSIVE SortAscending(_)
SortAscending(list) ==
    IF list = <<>> THEN <<>>
    ELSE insertAscending(SortAscending(Tail(list)), Head(list))

\* p brought into [0,1]
Clamped01(p) == IF DLess(p, Zero) THEN Zero ELSE IF DLess(One, p) THEN One ELSE p

\* the five durations 10, 20, 30, 40, 50 in some order
IsTenToFifty(list) ==
    /\ Len(list) = Cardinality(DurationValues)
    /\ {list[i] : i \in 1 .. Len(list)} = DurationValues

\* C20: computePercentile returns 0 for an empty list, the element of a
\* one-element list, and otherwise the element at index floor(p*(n-1)) of
\* the ascending sort with p clamped to [0,1]; for the durations 10..50 in
\* any order and p = 0.95 it returns 40.
C20_Percentile ==
    percentileCall.done =>
        LET values == percentileCall.values
            p == percentileCall.percentile
            n == Len(values)
        IN /\ n = 0 => percentileCall.result = Zero
           /\ n = 1 => percentileCall.result = values[1]
           /\ n > 1 => percentileCall.result =
                         SortAscending(values)[DFloor(DMul(Clamped01(p), Num(n - 1, 1))) + 1]
           /\ (IsTenToFifty(values) /\ p = Num(19, 20)) =>
                 percentileCall.result = Num(40, 1)

\* the unsorted durations of the example at p = 0.95 give 40
C20_Witness ==
    /\ percentileCall.done
    /\ percentileCall.values =
         <<Num(50, 1), Num(10, 1), Num(40, 1), Num(20, 1), Num(30, 1)>>
    /\ percentileCall.percentile = Num(19, 20)
    /\ percentileCall.result = Num(40, 1)

\* ------------------------------------------------------------------------
\* Properties of the summary file (SpecAccumulate, SpecSummary, SpecLoad)
\* ------------------------------------------------------------------------
\* C21: when accumulate has run twice (aggregate, then writeSummary) and the
\* telemetry directory is the same at both runs, the second run leaves the
\* same summary file and the same Summary as the first.
C21_Idempotent ==
    (runs.count = 2 /\ runs.written /\ telemetryDir = runs.first.dir) =>
        /\ summaryFile = runs.first.file
        /\ summary = runs.first.summary

\* the second run has written the summary of a directory with usable records
C21_Witness ==
    /\ runs.count = 2
    /\ runs.written
    /\ telemetryDir = runs.first.dir
    /\ summary.sessionCount > 1
    /\ Len(summaryFile) = 1
    /\ summaryFile = runs.first.file

\* C22: in every document writeSummary has written, each modern member and
\* its legacy alias carry the same value, whatever Summary was passed.
C22_Aliases ==
    runs.written =>
        LET d == Head(summaryFile)
        IN /\ d.sessionCount = d.session_count
           /\ d.meanStability = d.mean_stability
           /\ d.variance = d.stability_variance
           /\ d.driftPercentile = d.drift_index
           /\ d.sourceDirectory = d.source_directory

RECURSIVE sessionCounts(_)
sessionCounts(list) ==
    IF list = <<>> THEN 0
    ELSE Head(list).metrics.sessionCount + sessionCounts(Tail(list))

\* C24: when aggregate and loadSessions have both returned, every regular
\* .json file of the directory that holds a usable record has its session
\* in the list; the sessions are in ascending order of file name; where one
\* file is the only regular .json file of the directory its session carries
\* the Summary aggregate returned; and the sessionCounts of the list sum to
\* aggregate's sessionCount.
C24_Sessions ==
    (summary.done /\ sessions.done) =>
        LET entries == telemetryDir.entries
            list == sessions.list
            files == {i \in 1 .. Len(entries) :
                        entries[i].regular /\ entries[i].extension = ".json"}
        IN /\ \A i \in files :
                 usableRecords(entries[i]) > 0 =>
                    \E j \in 1 .. Len(list) : list[j].source = entries[i].name
           /\ \A j \in 1 .. Len(list) - 1 : list[j].source < list[j + 1].source
           /\ (Cardinality(files) = 1 /\ Len(list) = 1) => list[1].metrics = summary
           /\ sessionCounts(list) = summary.sessionCount

\* ------------------------------------------------------------------------
\* Properties of aggregate's exclusions and durations (SpecAccumulate,
\* SpecAggregate)
\* ------------------------------------------------------------------------
\* the files of a listing that nlohmann::json::parse rejects
RECURSIVE corruptIn(_)
corruptIn(entries) ==
    IF entries = <<>> THEN 0
    ELSE (IF isCorrupt(Head(entries)) THEN 1 ELSE 0) + corruptIn(Tail(entries))

\* C25: the result of aggregate exposes the number of files it excluded, so
\* two runs (in the build with nlohmann/json) that excluded different
\* numbers of files return different results.
C25_ExclusionVisible ==
    (/\ hasNlohmann
     /\ runs.count = 2
     /\ summary.done
     /\ corruptIn(runs.first.dir.entries) # corruptIn(telemetryDir.entries)) =>
        summary # runs.first.summary

\* the records of a "records" array with a numeric, finite, non-negative
\* duration
RECURSIVE validDurations(_)
validDurations(entries) ==
    IF entries = <<>> THEN 0
    ELSE (IF /\ Head(entries).duration_ms.kind = "number"
             /\ isfinite(Head(entries).duration_ms.v)
             /\ ~DLess(Head(entries).duration_ms.v, Zero)
          THEN 1 ELSE 0) + validDurations(Tail(entries))

RECURSIVE validDurationsInListing(_)
validDurationsInListing(entries) ==
    IF entries = <<>> THEN 0
    ELSE (IF /\ Head(entries).regular
             /\ Head(entries).extension = ".json"
             /\ Head(entries).document.json.valid
             /\ Head(entries).document.json.hasRecords
          THEN validDurations(Head(entries).document.json.entries)
          ELSE 0) + validDurationsInListing(Tail(entries))

\* C26: when aggregate has returned (in the build with nlohmann/json), the
\* list driftPercentile is computed from holds the valid duration of every
\* record of every regular .json file, usable score or not.
C26_AllDurations ==
    (summary.done /\ hasNlohmann) =>
        Len(aggregateFrame.durations) >= validDurationsInListing(telemetryDir.entries)

\* ------------------------------------------------------------------------
\* Properties of TemporalScoring (SpecScoring)
\* ------------------------------------------------------------------------
\* a double in [0,1]
InUnitInterval(value) ==
    value.fin /\ ~DLess(value, Zero) /\ ~DLess(One, value)

\* C27: the stabilityScore, entropyVariance and durationVariance returned
\* by evaluate and by evaluateAggregated lie in [0,1].
C27_UnitInterval ==
    scoring.op # "none" =>
        /\ InUnitInterval(scoring.result.stabilityScore)
        /\ InUnitInterval(scoring.result.entropyVariance)
        /\ InUnitInterval(scoring.result.durationVariance)

\* C28: for a non-empty list of groups evaluateAggregated returns the
\* arithmetic mean over the groups of evaluate's stabilityScore,
\* entropyVariance, durationVariance and driftMs, and the sum of the group
\* sizes as sampleCount.
C28_MeanOfGroups ==
    (scoring.op = "evaluateAggregated" /\ scoring.groups # <<>>) =>
        LET groups == scoring.groups
            sizes == [i \in 1 .. Len(groups) |-> Num(Len(groups[i]), 1)]
        IN /\ scoring.result.stabilityScore =
                 MeanOf([i \in 1 .. Len(groups) |-> evaluate(groups[i]).stabilityScore])
           /\ scoring.result.entropyVariance =
                 MeanOf([i \in 1 .. Len(groups) |-> evaluate(groups[i]).entropyVariance])
           /\ scoring.result.durationVariance =
                 MeanOf([i \in 1 .. Len(groups) |-> evaluate(groups[i]).durationVariance])
           /\ scoring.result.driftMs =
                 MeanOf([i \in 1 .. Len(groups) |-> evaluate(groups[i]).driftMs])
           /\ Num(scoring.result.sampleCount, 1) = SumOf(sizes)

\* two groups of different sizes, both with finite scores below 1
C28_Witness ==
    /\ scoring.op = "evaluateAggregated"
    /\ Len(scoring.groups) = 2
    /\ Len(scoring.groups[1]) = 1
    /\ Len(scoring.groups[2]) = 2
    /\ scoring.result.sampleCount = 3
    /\ scoring.result.stabilityScore.fin
    /\ DLess(scoring.result.stabilityScore, One)
    /\ DLess(Zero, scoring.result.driftMs)

\* C29: evaluate on the empty batch returns stabilityScore 1.0 and
\* sampleCount 0.
C29_EmptyBatch ==
    (scoring.op = "evaluate" /\ scoring.groups[1] = <<>>) =>
        /\ scoring.result.stabilityScore = One
        /\ scoring.result.sampleCount = 0

\* evaluate has been called on the empty batch
C29_Witness ==
    /\ scoring.op = "evaluate"
    /\ scoring.groups = << <<>> >>
    /\ scoring.result.stabilityScore = One
    /\ scoring.result.entropyVariance = Zero

\* ------------------------------------------------------------------------
\* Properties of generateSeed on two threads (SpecSeed)
\* ------------------------------------------------------------------------
\* C30 as stated: two threads with different identity hashes that call
\* generateSeed at the same clock tick get different seeds.
C30_Original ==
    \A i, j \in 1 .. Len(seedCall) :
        (i # j /\ seedCall[i].clockHash = seedCall[j].clockHash) =>
            seedCall[i].seed # seedCall[j].seed

\* C30: two threads with different identity hashes that call generateSeed
\* at the same clock tick get the same seed exactly when their hashes differ
\* in the most significant bit only, the bit the shift discards.
C30_DistinctSeeds ==
    \A i, j \in 1 .. Len(seedCall) :
        (i # j /\ seedCall[i].clockHash = seedCall[j].clockHash) =>
            ((seedCall[i].seed = seedCall[j].seed)
                <=> ((seedCall[i].threadHash % (SeedModulus \div 2))
                        = (seedCall[j].threadHash % (SeedModulus \div 2))))

\* two threads whose hashes differ in a low bit have called at the same tick
C30_Witness ==
    /\ Len(seedCall) = 2
    /\ seedCall[1].clockHash = seedCall[2].clockHash
    /\ (seedCall[1].threadHash % (SeedModulus \div 2))
          # (seedCall[2].threadHash % (SeedModulus \div 2))
    /\ seedCall[1].seed # seedCall[2].seed

\* ------------------------------------------------------------------------
\* Properties of the console trace and of the state edges (SpecAnchor)
\* ------------------------------------------------------------------------
\* the lines account for every change on the way from pre to post: none when
\* the state is the same, otherwise a chain of lines from pre to post, each
\* naming two different states
LinesAccountFor(log, pre, post) ==
    /\ \A i \in 1 .. Len(log) : log[i].from # log[i].to
    /\ IF log = <<>>
       THEN pre = post
       ELSE /\ log[1].from = pre
            /\ log[Len(log)].to = post
            /\ \A i \in 1 .. (Len(log) - 1) : log[i].to = log[i + 1].from

\* C31: every change of an anchor's state value, whatever operation causes it,
\* emits exactly one trace line naming the old and the new state, and an
\* operation that leaves the state unchanged emits none: the lines of the
\* last operation lead from the state its anchor had to the state it has
\* now (an anchor that a move constructor creates had no state before), and
\* the other anchor of a move, on which no line is written, has the state it
\* had.
C31_LinePerChange ==
    (last.op # "init") =>
        /\ (last.op # "moveConstruct") =>
               LinesAccountFor(trace, last.pre.state, anchor[last.self].state)
        /\ (last.other # last.self) =>
               anchor[last.other].state = last.preOther.state

\* the edges of the documented progression, and the two edges into Error
StateEdges ==
    {<<"Unlocked", "Locked">>, <<"Locked", "Released">>, <<"Released", "Unlocked">>,
     <<"Unlocked", "Error">>, <<"Locked", "Error">>}

\* the state values on the lines of the last operation
TraceStates == [i \in 1 .. Len(trace) |-> trace[i].to]

AlongEdges(path) ==
    \A i \in 1 .. (Len(path) - 1) :
        \/ path[i] = path[i + 1]
        \/ <<path[i], path[i + 1]>> \in StateEdges

\* the state values an anchor went through in the last operation: for the
\* anchor operated on, the state before, the states set by setState and the
\* state now; for the source of a move, the state before and the state now
StatePath(a) ==
    IF a = last.self
    THEN <<last.pre.state>> \o TraceStates \o <<anchor[a].state>>
    ELSE <<last.preOther.state, anchor[a].state>>

scoresOf(recs) == [i \in 1 .. Len(recs) |-> Num(recs[i].stabilityScore, 1000)]

C38_KeepsCaptured ==
    [][\A t \in Threads :
          (pc[t] = "release_body" /\ pc'[t] = "idle"
              /\ frame[t].recordId < Len(records[frame[t].rc])) =>
             LET old == records[frame[t].rc][frame[t].recordId + 1]
                 new == records'[frame[t].rc][frame[t].recordId + 1]
             IN  /\ (old.context # "") => (new.context = old.context)
                 /\ (old.seed # 0) => (new.seed = old.seed)
                 /\ (new.context # old.context) =>
                        (old.context = "" /\ new.context = frame[t].context)
                 /\ (new.seed # old.seed) =>
                        (old.seed = 0 /\ new.seed = frame[t].seed)]_vars

\* a record acquired with context "x" and seed 1 has been released by a
\* call that passed "y" and 2 (the call that passes the score 0.5)
C38_Witness ==
    \E i \in 1 .. Len(records["r1"]) :
        /\ records["r1"][i].hasReleasedAt
        /\ records["r1"][i].stabilityScore = 500
        /\ records["r1"][i].context = "x"
        /\ records["r1"][i].seed = 1

\* ------------------------------------------------------------------------
\* Properties of threads that share recorders (SpecMerge, SpecMergeFair)
\* ------------------------------------------------------------------------
\* C35: merge always terminates: a thread about to take a mutex in merge,
\* setBackendMetadata or mergeRecords holds no mutex, its own recorder's or
\* the other's, and under every interleaving (a.merge(a), and a.merge(b)
\* running with b.merge(a), included) a merge that has begun returns.
C35_MergeTerminates ==
    /\ [](\A t \in Threads :
             (pc[t] \in {"set_lock", "copy_lock", "insert_lock"}) =>
                 \A rc \in Recorders : mutex[rc] # t)
    /\ \A t \in Threads : (frame[t].op = "merge") ~> (pc[t] = "idle")

\* r1.merge(r2) and r2.merge(r1) run together on recorders that hold
\* records, and each thread is inside other.records() holding the mutex of
\* the other thread's recorder
C35_Witness ==
    /\ frame["t1"].op = "merge"
    /\ frame["t2"].op = "merge"
    /\ frame["t1"].rc = frame["t2"].other
    /\ frame["t1"].other = frame["t2"].rc
    /\ frame["t1"].rc # frame["t1"].other
    /\ pc["t1"] = "copy_body"
    /\ pc["t2"] = "copy_body"
    /\ mutex[frame["t1"].other] = "t1"
    /\ mutex[frame["t2"].other] = "t2"
    /\ \A rc \in Recorders : records[rc] # <<>>

\* the accesses to shared data a thread makes outside every critical
\* section and has not synchronised since: the store to the static
\* activeTelemetry_ that recordAcquire makes before its lock_guard, and the
\* loads of the other recorder's backend_ and deviceName_ in merge (at
\* "merge_args" the loads of the condition are behind it and those of the
\* arguments ahead, at "set_lock" all are behind it, and no mutex has been
\* taken since)
unguardedAccesses(t) ==
    CASE pc[t] = "acquire_lock" ->
            {[datum |-> "activeTelemetry_", of |-> "static", write |-> TRUE]}
      [] pc[t] \in {"merge_args", "set_lock"} /\ frame[t].op = "merge" ->
            {[datum |-> "backend_", of |-> frame[t].other, write |-> FALSE],
             [datum |-> "deviceName_", of |-> frame[t].other, write |-> FALSE]}
      [] OTHER -> {}

\* the accesses of the critical section a thread is inside
guardedAccesses(t) ==
    CASE pc[t] = "acquire_body" ->
            {[datum |-> "backend_", of |-> frame[t].rc, write |-> TRUE],
             [datum |-> "deviceName_", of |-> frame[t].rc, write |-> TRUE],
             [datum |-> "records_", of |-> frame[t].rc, write |-> TRUE]}
      [] pc[t] = "set_body" ->
            {[datum |-> "backend_", of |-> frame[t].rc, write |-> TRUE],
             [datum |-> "deviceName_", of |-> frame[t].rc, write |-> TRUE],
             [datum |-> "records_", of |-> frame[t].rc, write |-> TRUE]}
      [] pc[t] = "copy_body" ->
            {[datum |-> "records_", of |-> frame[t].other, write |-> FALSE]}
      [] pc[t] = "insert_body" ->
            {[datum |-> "records_", of |-> frame[t].rc, write |-> TRUE]}
      [] OTHER -> {}

\* two accesses to the same datum, one of them a store
conflict(a, b) ==
    /\ a.datum = b.datum
    /\ a.of = b.of
    /\ a.write \/ b.write

\* C34: every read or write of state shared between threads through a
\* recorder (the record list, the backend/device metadata and the
\* process-wide active-instance pointer) happens while holding that
\* recorder's mutex, so no interleaving of recordAcquire, merge and
\* setBackendMetadata on shared recorders has two threads accessing the same
\* datum unsynchronized: no thread makes an access outside a critical
\* section that conflicts with an access of another thread.
C34_Synchronized ==
    \A t, u \in Threads :
        (t # u) =>
            \A a \in unguardedAccesses(t) :
                \A b \in unguardedAccesses(u) \cup guardedAccesses(u) :
                    ~conflict(a, b)

\* inside critical sections alone no two threads conflict
C34_GuardedAlone ==
    \A t, u \in Threads :
        (t # u) =>
            \A a \in guardedAccesses(t) : \A b \in guardedAccesses(u) : ~conflict(a, b)

\* ------------------------------------------------------------------------
\* Properties of aggregate under reordering (SpecOrder)
\* ------------------------------------------------------------------------
\* the same entries in every order
Reorderings(list) ==
    {[i \in 1 .. Len(list) |-> list[p[i]]] :
        p \in {q \in [1 .. Len(list) -> 1 .. Len(list)] :
                 \A i, j \in 1 .. Len(list) : q[i] = q[j] => i = j}}

RoundTrips(s, back) ==
    /\ back.sessionCount = s.sessionCount
    /\ back.meanStability = fixed6(s.meanStability)
    /\ back.variance = fixed6(s.variance)
    /\ back.driftPercentile = fixed6(s.driftPercentile)
    /\ back.stabilityVariance = back.variance
    /\ back.driftIndex = back.driftPercentile

\* C37: loadSummary on the file writeSummary wrote for a Summary returned
\* by aggregate gives the Summary's sessionCount and its meanStability,
\* variance and driftPercentile rounded to six decimals, with
\* stabilityVariance equal to variance and driftIndex to driftPercentile
C37_RoundTrip ==
    (runs.written /\ loaded.done) => RoundTrips(summary, loaded)

====
